---- MODULE Spec2Model ----
(***************************************************************************)
(* Verification model of the answer-sheet alignment and segmentation code: *)
(*   src/Models/Segment.py                       (FastAPI service)         *)
(*   src/frontend/.../Pages/Segment.py           (batch CLI, process_images)*)
(*   src/Alignment/model.py                      (sheet_align_agent_v6)    *)
(*   src/Alignment/train.py                      (alignment agent v4)      *)
(*                                                                         *)
(* Results of the vision primitives (contours, feature matches, SVD,       *)
(* pixel statistics) are inputs drawn from small sets; everything the      *)
(* Python code itself computes from them is computed here as the code does.*)
(* Each part of the code has its own variable and its own specification;   *)
(* a specification leaves the variables of the other parts at "off".       *)
(***************************************************************************)
EXTENDS Integers, Sequences, FiniteSets, TLC

VARIABLES
    ord,    \* corner canonicalisation: order_points / order_corners / warp_from_quad
    fc,     \* final_hybrid_crop_after_deskew (model.py)
    sr,     \* split_rows (model.py)
    ce,     \* compute_alignment_confidence_from_stats
    seg,    \* process_single_image / process_single_image_with_alignment /
            \* crop_questions_from_images / process_images
    ap,     \* align_page and main (train.py)
    wp,     \* warp selection of process, with best_warp (model.py)
    hm,     \* homography analysis: measure_perspective_from_template_to_image,
            \* decompose_homography, safe_inverse
    ab,     \* attach_answer_boxes (model.py)
    qv,     \* the quadrilaterals that are warped from
    bt,     \* a batch run: the loop of process_images / crop_questions_from_images
    bw,     \* best_warp (model.py)
    lq,     \* detect_quad_lsd (train.py)
    cb      \* crop_bbox_from_template_coords

vars == <<ord, fc, sr, ce, seg, ap, wp, hm, ab, qv, bt, bw, lq, cb>>

Off == [pc |-> "off"]

\* Python None, for a value that is otherwise a record
None == [none |-> TRUE]

\* Python None, for a value that is otherwise a sequence of points
NoQuad == << >>

(***************************************************************************)
(* Small arithmetic helpers (numpy / Python builtins).                     *)
(***************************************************************************)
Max2(a, b) == IF a >= b THEN a ELSE b

Min2(a, b) == IF a <= b THEN a ELSE b

Abs(a) == IF a >= 0 THEN a ELSE -a

\* np.clip(v, lo, hi)
Clip(v, lo, hi) == Max2(lo, Min2(hi, v))

\* np.argmin: index of the FIRST occurrence of the minimum
argmin(s) ==
    CHOOSE i \in 1..Len(s) :
        /\ \A j \in 1..Len(s) : s[i] <= s[j]
        /\ \A j \in 1..(i-1) : s[j] > s[i]

\* np.argmax: index of the FIRST occurrence of the maximum
argmax(s) ==
    CHOOSE i \in 1..Len(s) :
        /\ \A j \in 1..Len(s) : s[i] >= s[j]
        /\ \A j \in 1..(i-1) : s[j] < s[i]

(***************************************************************************)
(* Corner canonicalisation.  A point is <<x, y>>; pts is a sequence of 4.  *)
(***************************************************************************)
\* pts.sum(axis=1)
SumXY(pts) == [i \in 1..Len(pts) |-> pts[i][1] + pts[i][2]]

\* np.diff(pts, axis=1): y - x
DiffYX(pts) == [i \in 1..Len(pts) |-> pts[i][2] - pts[i][1]]

\* Segment.py order_points: rect[0]=argmin s, rect[2]=argmax s,
\* rect[1]=argmin diff, rect[3]=argmax diff
order_points(pts) ==
    LET s == SumXY(pts)
        diff == DiffYX(pts)
    IN  << pts[argmin(s)], pts[argmin(diff)], pts[argmax(s)], pts[argmax(diff)] >>

\* train.py order_corners: [tl, tr, br, bl]
order_corners(pts) ==
    LET s == SumXY(pts)
        d == DiffYX(pts)
        tl == pts[argmin(s)]
        br == pts[argmax(s)]
        tr == pts[argmin(d)]
        bl == pts[argmax(d)]
    IN  << tl, tr, br, bl >>

\* model.py warp_from_quad, the inline ordering P = [tl, tr, br, bl]
warp_from_quad_P(quad) ==
    LET s == SumXY(quad)
        d == DiffYX(quad)
        tl == quad[argmin(s)]
        br == quad[argmax(s)]
        tr == quad[argmin(d)]
        bl == quad[argmax(d)]
    IN  << tl, tr, br, bl >>

Routines == {"order_points", "order_corners", "warp_from_quad"}

Canonicalise(routine, pts) ==
    CASE routine = "order_points"   -> order_points(pts)
      [] routine = "order_corners"  -> order_corners(pts)
      [] routine = "warp_from_quad" -> warp_from_quad_P(pts)

\* coordinates of the points tried: 0..GridMax in x and y
GridMax == 2

Points == (0..GridMax) \X (0..GridMax)

\* the permutations of 1..4
Perms == { p \in [1..4 -> 1..4] : \A i, j \in 1..4 : i # j => p[i] # p[j] }

\* z component of (b - a) x (c - b)
Cross(a, b, c) == (b[1] - a[1]) * (c[2] - b[2]) - (b[2] - a[2]) * (c[1] - b[1])

\* q, taken in the order q[1], q[2], q[3], q[4], is a strictly convex polygon
StrictlyConvexCycle(q) ==
    \/ \A i \in 1..4 : Cross(q[i], q[(i % 4) + 1], q[((i + 1) % 4) + 1]) > 0
    \/ \A i \in 1..4 : Cross(q[i], q[(i % 4) + 1], q[((i + 1) % 4) + 1]) < 0

\* the four points are the corners of a convex quadrilateral (what a 4-point
\* contour approximation or a min-area-rectangle box gives), listed in any order
Quads ==
    { q \in [1..4 -> Points] :
        \E p \in Perms : StrictlyConvexCycle([i \in 1..4 |-> q[p[i]]]) }

InitOrder ==
    /\ ord \in { [pc |-> "input", routine |-> r, pts |-> q, perm |-> q,
                  rect |-> NoQuad, rect_perm |-> NoQuad] :
                 r \in Routines, q \in Quads }
    /\ fc = Off /\ sr = Off /\ ce = Off /\ seg = Off /\ ap = Off /\ wp = Off /\ hm = Off /\ ab = Off /\ qv = Off
    /\ bt = Off /\ bw = Off /\ lq = Off /\ cb = Off

\* the caller hands over the same four points in another order
Reorder ==
    /\ ord.pc = "input"
    /\ ord.perm = ord.pts
    /\ \E p \in Perms :
         ord' = [ord EXCEPT !.perm = [i \in 1..4 |-> ord.pts[p[i]]]]
    /\ UNCHANGED <<fc, sr, ce, seg, ap, wp, hm, ab, qv, bt, bw, lq, cb>>

\* the routine is run on the points as given and on the reordered points
OrderBoth ==
    /\ ord.pc = "input"
    /\ ord' = [ord EXCEPT !.pc = "done",
                          !.rect = Canonicalise(ord.routine, ord.pts),
                          !.rect_perm = Canonicalise(ord.routine, ord.perm)]
    /\ UNCHANGED <<fc, sr, ce, seg, ap, wp, hm, ab, qv, bt, bw, lq, cb>>

NextOrder == Reorder \/ OrderBoth

SpecOrder == InitOrder /\ [][NextOrder]_vars

\* the points of rect are extremes of x+y and y-x among pts
IsExtremeOrder(pts, rect) ==
    /\ \A i \in 1..4 : rect[1][1] + rect[1][2] <= pts[i][1] + pts[i][2]
    /\ \A i \in 1..4 : rect[3][1] + rect[3][2] >= pts[i][1] + pts[i][2]
    /\ \A i \in 1..4 : rect[2][2] - rect[2][1] <= pts[i][2] - pts[i][1]
    /\ \A i \in 1..4 : rect[4][2] - rect[4][1] >= pts[i][2] - pts[i][1]

\* C1: for any four points in any order the routines return (tl, tr, br, bl)
\* by the extremes of x+y and y-x, and the returned sequence is the same for
\* every permutation of the same four points.
C1_OrderIndependent ==
    ord.pc = "done" =>
        /\ IsExtremeOrder(ord.pts, ord.rect)
        /\ IsExtremeOrder(ord.perm, ord.rect_perm)
        /\ ord.rect = ord.rect_perm

(***************************************************************************)
(* model.py final_hybrid_crop_after_deskew.                                *)
(* The ink-projection box is None when rows or cols is empty, else         *)
(* [x0 |-> cols[0], x1 |-> cols[-1], y0 |-> rows[0], y1 |-> rows[-1]];      *)
(* the paper box b2 is None or [x, y, w, h] as box_from_mask returns it.   *)
(***************************************************************************)
\* int(0.01*n) and int(0.99*n); equal to the float results for the sizes used
Int001(n) == n \div 100

Int099(n) == (99 * n) \div 100

\* a numpy slice a[lo:hi] of an axis of length n, lo, hi >= 0: the index range kept
SliceLo(lo, n) == Min2(lo, n)

SliceHi(lo, hi, n) == Max2(Min2(hi, n), Min2(lo, n))

\* rgb[y0:y1, x0:x1] as the region [x0, x1) x [y0, y1) of the W x H image
Region(W, H, x0, y0, x1, y1) ==
    [x0 |-> SliceLo(x0, W), x1 |-> SliceHi(x0, x1, W),
     y0 |-> SliceLo(y0, H), y1 |-> SliceHi(y0, y1, H)]

WholeImage(W, H) == [x0 |-> 0, x1 |-> W, y0 |-> 0, y1 |-> H]

\* lines 250-253: only the paper box exists
CropPaperOnly(W, H, b2, pad) ==
    LET x0 == Max2(Int001(W), b2.x - pad)
        y0 == Max2(Int001(H), b2.y - pad)
        x1 == Min2(Int099(W), b2.x + b2.w + pad)
        y1 == Min2(Int099(H), b2.y + b2.h + pad)
    IN  Region(W, H, x0, y0, x1, y1)

\* lines 258-262: only the ink box exists
CropInkOnly(W, H, ink, pad) ==
    LET x0 == Max2(Int001(W), ink.x0 - pad)
        y0 == Max2(Int001(H), ink.y0 - pad)
        x1 == Min2(Int099(W), ink.x1 + pad)
        y1 == Min2(Int099(H), ink.y1 + pad)
    IN  IF y1 <= y0 \/ x1 <= x0 THEN WholeImage(W, H)
        ELSE Region(W, H, x0, y0, x1, y1)

\* lines 264-284: both exist; intersection, else the tighter of the two
CropBoth(W, H, ink, b2, pad) ==
    LET x0 == Max2(Int001(W), Max2(ink.x0, b2.x) - pad)
        y0 == Max2(Int001(H), Max2(ink.y0, b2.y) - pad)
        x1 == Min2(Int099(W), Min2(ink.x1, b2.x + b2.w) + pad)
        y1 == Min2(Int099(H), Min2(ink.y1, b2.y + b2.h) + pad)
        xa0 == Max2(Int001(W), ink.x0 - pad)
        ya0 == Max2(Int001(H), ink.y0 - pad)
        xa1 == Min2(Int099(W), ink.x1 + pad)
        ya1 == Min2(Int099(H), ink.y1 + pad)
        xb0 == Max2(Int001(W), b2.x - pad)
        yb0 == Max2(Int001(H), b2.y - pad)
        xb1 == Min2(Int099(W), b2.x + b2.w + pad)
        yb1 == Min2(Int099(H), b2.y + b2.h + pad)
        area_a == Max2(0, xa1 - xa0) * Max2(0, ya1 - ya0)
        area_b == Max2(0, xb1 - xb0) * Max2(0, yb1 - yb0)
    IN  IF y1 <= y0 \/ x1 <= x0
        THEN IF area_b # 0 /\ area_b < area_a
             THEN Region(W, H, xb0, yb0, xb1, yb1)
             ELSE Region(W, H, xa0, ya0, xa1, ya1)
        ELSE Region(W, H, x0, y0, x1, y1)

final_hybrid_crop_after_deskew(W, H, ink, b2, pad) ==
    IF ink = None
    THEN IF b2 = None THEN WholeImage(W, H) ELSE CropPaperOnly(W, H, b2, pad)
    ELSE IF b2 = None THEN CropInkOnly(W, H, ink, pad)
         ELSE CropBoth(W, H, ink, b2, pad)

\* image sizes tried (width, height): a large page image and a small image
CropSizes == { <<2000, 3000>>, <<120, 160>> }

\* pad: the default (8) and the value process passes (10)
CropPads == {8, 10}

\* pixel coordinates tried along an axis of length n
CoordsOf(n) == {0, n \div 2, n - 12, n - 1}

\* ink boxes: first and last index above threshold along each axis
InkBoxes(W, H) ==
    { [x0 |-> a, x1 |-> b, y0 |-> c, y1 |-> d] :
        a \in CoordsOf(W), b \in CoordsOf(W), c \in CoordsOf(H), d \in CoordsOf(H) }

\* paper boxes: bounding rectangles lying in the image
PaperBoxes(W, H) ==
    { [x |-> a, y |-> c, w |-> b - a, h |-> d - c] :
        a \in CoordsOf(W), b \in CoordsOf(W) \cup {W},
        c \in CoordsOf(H), d \in CoordsOf(H) \cup {H} }

InitCrop ==
    /\ \E sz \in CropSizes, pad \in CropPads :
         \E ink \in { b \in InkBoxes(sz[1], sz[2]) : b.x0 <= b.x1 /\ b.y0 <= b.y1 }
                    \cup {None},
            b2 \in { b \in PaperBoxes(sz[1], sz[2]) : b.w >= 1 /\ b.h >= 1 }
                    \cup {None} :
              fc = [pc |-> "input", W |-> sz[1], H |-> sz[2], pad |-> pad,
                    ink |-> ink, b2 |-> b2, out |-> None]
    /\ ord = Off /\ sr = Off /\ ce = Off /\ seg = Off /\ ap = Off /\ wp = Off /\ hm = Off /\ ab = Off /\ qv = Off
    /\ bt = Off /\ bw = Off /\ lq = Off /\ cb = Off

FinalCrop ==
    /\ fc.pc = "input"
    /\ fc' = [fc EXCEPT !.pc = "done",
                        !.out = final_hybrid_crop_after_deskew(fc.W, fc.H, fc.ink,
                                                               fc.b2, fc.pad)]
    /\ UNCHANGED <<ord, sr, ce, seg, ap, wp, hm, ab, qv, bt, bw, lq, cb>>

NextCrop == FinalCrop

SpecCrop == InitCrop /\ [][NextCrop]_vars

\* C2: for every image and every combination of ink box and paper box
\* (present or absent) the region returned by final_hybrid_crop_after_deskew
\* has width >= 1 and height >= 1 and lies inside [0,W) x [0,H).
C2_CropNonEmptyInside ==
    fc.pc = "done" =>
        /\ fc.out.x1 - fc.out.x0 >= 1
        /\ fc.out.y1 - fc.out.y0 >= 1
        /\ 0 <= fc.out.x0 /\ fc.out.x1 <= fc.W
        /\ 0 <= fc.out.y0 /\ fc.out.y1 <= fc.H

(***************************************************************************)
(* model.py split_rows.  The input is the row-wise ink projection proj     *)
(* (one value per image row, rows 0..H-1 kept at indices 1..H) given as    *)
(* runs <<length, level>>; a row band is [x, y, w, h].                     *)
(***************************************************************************)
RECURSIVE Expand(_)
\* the projection of a run list: level repeated length times, run after run
Expand(runs) ==
    IF runs = << >> THEN << >>
    ELSE [i \in 1..runs[1][1] |-> runs[1][2]] \o Expand(Tail(runs))

RECURSIVE SumRange(_, _, _)
\* s[lo] + ... + s[hi], summed by halves
SumRange(s, lo, hi) ==
    IF lo > hi THEN 0
    ELSE IF lo = hi THEN s[lo]
    ELSE LET mid == (lo + hi) \div 2
         IN  SumRange(s, lo, mid) + SumRange(s, mid + 1, hi)

\* np.sum over the projection
SeqSum(s) == SumRange(s, 1, Len(s))

\* proj[y] > thresh with thresh = np.mean(proj) * 0.4, in exact arithmetic:
\* proj[y] > 0.4 * sum / H
AboveThresh(proj, total, y) == 10 * proj[y + 1] * Len(proj) > 4 * total

\* min_h = max(40, H//40)
MinRowHeight(H) == Max2(40, H \div 40)

\* the band appended for a run y0..y1: (0, max(0,y0-4), W, min(H-1,y1+4)-max(0,y0-4))
RowBand(W, H, y0, y1) ==
    [x |-> 0, y |-> Max2(0, y0 - 4), w |-> W,
     h |-> Min2(H - 1, y1 + 4) - Max2(0, y0 - 4)]

\* lines 368-373: one iteration of "for y in range(H)"; st is the loop state
\* [in_seg, y0, segments]
ScanStep(above, W, H, y, st) ==
    IF above[y + 1] /\ ~st.in_seg
    THEN [st EXCEPT !.in_seg = TRUE, !.y0 = y]
    ELSE IF (~above[y + 1] \/ y = H - 1) /\ st.in_seg
         THEN [st EXCEPT !.in_seg = FALSE,
                         !.segments = IF (y - st.y0) >= MinRowHeight(H)
                                      THEN Append(st.segments, RowBand(W, H, st.y0, y))
                                      ELSE st.segments]
         ELSE st

RECURSIVE ScanRange(_, _, _, _, _, _)
\* the iterations y = lo, lo+1, ..., hi in this order, from loop state st
\* (the range is run as its lower half followed by its upper half)
ScanRange(above, W, H, lo, hi, st) ==
    IF lo > hi THEN st
    ELSE IF lo = hi THEN ScanStep(above, W, H, lo, st)
    ELSE LET mid == (lo + hi) \div 2
             first == ScanRange(above, W, H, lo, mid, st)
         IN  IF first.in_seg \in BOOLEAN
             THEN ScanRange(above, W, H, mid + 1, hi, first)
             ELSE st

\* lines 365-373: segments=[]; in_seg=False; y0=0; for y in range(H): ...
ScanRows(above, W, H) ==
    ScanRange(above, W, H, 0, H - 1,
              [in_seg |-> FALSE, y0 |-> 0, segments |-> << >>]).segments

\* a version of MergeRows that never merges: every band is kept as it is
MergeRows_never(segments) == segments

RECURSIVE MergeFrom(_, _)
\* lines 374-379, with merged the list built so far
MergeFrom(segments, merged) ==
    IF segments = << >> THEN merged
    ELSE LET seg1 == segments[1]
             n == Len(merged)
         IN  IF merged = << >>
             THEN MergeFrom(Tail(segments), << seg1 >>)
             ELSE IF seg1.y <= merged[n].y + merged[n].h + 12
                  THEN MergeFrom(Tail(segments),
                                 [merged EXCEPT ![n].h = (seg1.y + seg1.h) - merged[n].y])
                  ELSE MergeFrom(Tail(segments), Append(merged, seg1))

\* lines 374-379: merge bands separated by gaps of at most 12 px
MergeRows(segments) == MergeFrom(segments, << >>)

\* top_cut = int(H * min_y_frac), min_y_frac = frac[1] / frac[2]
TopCut(H, frac) == (H * frac[1]) \div frac[2]

RECURSIVE CutTop(_, _)
\* lines 381-385: drop or truncate what lies above top_cut
CutTop(merged, top_cut) ==
    IF merged = << >> THEN << >>
    ELSE LET r == merged[1]
             y2 == Max2(r.y, top_cut)
             rest == CutTop(Tail(merged), top_cut)
         IN  IF (r.y + r.h) > top_cut /\ (y2 - r.y) < r.h
             THEN << [x |-> r.x, y |-> y2, w |-> r.w, h |-> (r.y + r.h) - y2] >> \o rest
             ELSE rest

split_rows(proj, W, frac) ==
    LET H == Len(proj)
        total == SeqSum(proj)
        above == [i \in 1..H |-> AboveThresh(proj, total, i - 1)]
        segments == ScanRows(above, W, H)
    IN  CutTop(MergeRows(segments), TopCut(H, frac))

\* at most MaxRuns runs in a projection
MaxRuns == 3

\* run lengths: a gap that is merged over (5 rows), and runs at and above the
\* 40-row minimum height, which as gaps are too wide to merge over
RunLens == {5, 41, 60}

\* ink levels of a run (0: no ink)
RunLevels == {0, 1, 4}

\* min_y_frac values tried, as numerator and denominator (0.26 is the default)
MinYFracs == { <<0, 1>>, <<26, 100>>, <<1, 2>> }

\* image width of the page whose rows are split
RowsW == 100

InitRows ==
    /\ sr = [pc |-> "input", runs |-> << >>, frac |-> <<0, 1>>, top_cut |-> 0,
             out |-> << >>]
    /\ ord = Off /\ fc = Off /\ ce = Off /\ seg = Off /\ ap = Off /\ wp = Off /\ hm = Off /\ ab = Off /\ qv = Off
    /\ bt = Off /\ bw = Off /\ lq = Off /\ cb = Off

\* the page has one more run of rows
AddRun ==
    /\ sr.pc = "input"
    /\ Len(sr.runs) < MaxRuns
    /\ \E len \in RunLens, lev \in RunLevels :
         sr' = [sr EXCEPT !.runs = Append(sr.runs, <<len, lev>>)]
    /\ UNCHANGED <<ord, fc, ce, seg, ap, wp, hm, ab, qv, bt, bw, lq, cb>>

SplitRows ==
    /\ sr.pc = "input"
    /\ sr.runs # << >>
    /\ \E frac \in MinYFracs :
         sr' = [sr EXCEPT !.pc = "done", !.frac = frac,
                          !.top_cut = TopCut(Len(Expand(sr.runs)), frac),
                          !.out = split_rows(Expand(sr.runs), RowsW, frac)]
    /\ UNCHANGED <<ord, fc, ce, seg, ap, wp, hm, ab, qv, bt, bw, lq, cb>>

NextRows == AddRun \/ SplitRows

SpecRows == InitRows /\ [][NextRows]_vars

\* C3: the rows returned by split_rows are in strictly increasing top order,
\* no two overlap vertically (each bottom y+h is <= the next top), and every
\* top is >= int(H * min_y_frac).
C3_RowsOrderedDisjointBelowCut ==
    sr.pc = "done" =>
        /\ \A i \in 1..(Len(sr.out) - 1) :
             /\ sr.out[i].y < sr.out[i + 1].y
             /\ sr.out[i].y + sr.out[i].h <= sr.out[i + 1].y
        /\ \A i \in 1..Len(sr.out) : sr.out[i].y >= sr.top_cut

\* two rows are returned and the first was truncated at the cutoff
C3_Witness ==
    /\ sr.pc = "done"
    /\ Len(sr.out) >= 2
    /\ sr.top_cut > 0
    /\ sr.out[1].y = sr.top_cut

(***************************************************************************)
(* compute_alignment_confidence_from_stats (both Segment.py files hold the *)
(* same text).  Numbers are exact: a confidence is a fraction <<num, den>> *)
(* with den > 0, a reprojection error is in tenths of a pixel (or          *)
(* infinite, the initial value of the stats), an area ratio is in          *)
(* thousandths.  Floating-point multiplication, addition and division by a *)
(* positive constant round monotonically, so an order that holds for the   *)
(* exact values holds, non-strictly, for the floats.                       *)
(***************************************************************************)

\* a <= b for fractions with positive denominators
FracLeq(a, b) == a[1] * b[2] <= b[1] * a[2]

\* np.clip(f, 0.0, 1.0) on a fraction
Clip01(f) == IF f[1] < 0 THEN <<0, 1>> ELSE IF f[1] > f[2] THEN <<1, 1>> ELSE f

\* reproj_norm = np.clip(1.0 - (reproj / 50.0), 0.0, 1.0), as a fraction of 500
reproj_norm(stats) ==
    IF stats.err_inf THEN <<0, 500>> ELSE Clip01(<<500 - stats.err10, 500>>)

\* the same function with the clipping left out
confidence_unclipped(stats, fallback, doc_area_ratio) ==
    IF fallback THEN <<doc_area_ratio - 200, 750>>
    ELSE IF stats.matches <= 0 THEN <<0, 1>>
    ELSE <<7 * stats.inliers * 500 + 3 * stats.matches * (500 - stats.err10),
           10 * stats.matches * 500>>

compute_alignment_confidence_from_stats(stats, fallback, doc_area_ratio) ==
    IF fallback THEN Clip01(<<doc_area_ratio - 200, 750>>)
    ELSE IF stats.matches <= 0 THEN <<0, 1>>
    ELSE LET rn == reproj_norm(stats)
             \* 0.7 * inliers/matches + 0.3 * rn[1]/500
             score == <<7 * stats.inliers * 500 + 3 * stats.matches * rn[1],
                        10 * stats.matches * 500>>
         IN  Clip01(score)

\* at most MaxMatches cross-checked matches
MaxMatches == 7

\* fewer matches than this give no homography, hence no inliers
MinMatches == 4

\* median reprojection errors in tenths of a pixel: none, 12.5 px, the 50 px
\* at which reproj_norm reaches 0, and beyond
ErrTenths == {0, 125, 500, 600}

\* document area ratios in thousandths: below, at and above the 0.2 offset,
\* at the 0.95 where the formula reaches 1, and beyond
AreaRatios == {0, 100, 200, 500, 950, 1000, 1100}

\* the stats compute_homography_via_features can hand over
StatsSet ==
    { [matches |-> m, inliers |-> i, err_inf |-> inf, err10 |-> e] :
        m \in 0..MaxMatches, i \in 0..MaxMatches, inf \in BOOLEAN, e \in ErrTenths }

FeatureStats ==
    { st \in StatsSet : /\ st.inliers <= st.matches
                        /\ (st.matches < MinMatches) => st.inliers = 0
                        /\ st.err_inf => st.err10 = 0
                        /\ (st.inliers = 0) => st.err_inf
                        /\ (st.inliers > 0) => ~st.err_inf }

EmptyStats == [matches |-> 0, inliers |-> 0, err_inf |-> TRUE, err10 |-> 0]

ConfInput(stats, fallback, ratio) ==
    [stats |-> stats, fallback |-> fallback, doc_area_ratio |-> ratio]

ConfOf(in) ==
    compute_alignment_confidence_from_stats(in.stats, in.fallback, in.doc_area_ratio)

InitConf ==
    /\ ce = [pc |-> "input", a |-> ConfInput(EmptyStats, FALSE, 0),
             b |-> ConfInput(EmptyStats, FALSE, 0), ca |-> None, cb |-> None]
    /\ ord = Off /\ fc = Off /\ sr = Off /\ seg = Off /\ ap = Off /\ wp = Off /\ hm = Off /\ ab = Off /\ qv = Off
    /\ bt = Off /\ bw = Off /\ lq = Off /\ cb = Off

\* two calls of the feature-match formula
ChooseStats ==
    /\ ce.pc = "input"
    /\ \E sa \in FeatureStats, sb \in FeatureStats :
         ce' = [ce EXCEPT !.pc = "chosen", !.a = ConfInput(sa, FALSE, 0),
                          !.b = ConfInput(sb, FALSE, 0)]
    /\ UNCHANGED <<ord, fc, sr, seg, ap, wp, hm, ab, qv, bt, bw, lq, cb>>

\* two calls of the area-ratio formula
ChooseAreas ==
    /\ ce.pc = "input"
    /\ \E ra \in AreaRatios, rb \in AreaRatios :
         ce' = [ce EXCEPT !.pc = "chosen", !.a = ConfInput(EmptyStats, TRUE, ra),
                          !.b = ConfInput(EmptyStats, TRUE, rb)]
    /\ UNCHANGED <<ord, fc, sr, seg, ap, wp, hm, ab, qv, bt, bw, lq, cb>>

Estimate ==
    /\ ce.pc = "chosen"
    /\ ce' = [ce EXCEPT !.pc = "done", !.ca = ConfOf(ce.a), !.cb = ConfOf(ce.b)]
    /\ UNCHANGED <<ord, fc, sr, seg, ap, wp, hm, ab, qv, bt, bw, lq, cb>>

NextConf == ChooseStats \/ ChooseAreas \/ Estimate

SpecConf == InitConf /\ [][NextConf]_vars

\* inliers/matches of the first call is at most that of the second
InlierRatioLeq(sa, sb) ==
    /\ sa.matches > 0 /\ sb.matches > 0
    /\ sa.inliers * sb.matches <= sb.inliers * sa.matches

SameErr(sa, sb) == sa.err_inf = sb.err_inf /\ sa.err10 = sb.err10

In01(c) == c[2] > 0 /\ 0 <= c[1] /\ c[1] <= c[2]

\* C4: the confidence never decreases when the inlier ratio grows at a fixed
\* median reprojection error, never decreases when the document area ratio
\* grows (area-ratio formula), and always lies in [0, 1].
C4_ConfidenceMonotoneBounded ==
    ce.pc = "done" =>
        /\ In01(ce.ca) /\ In01(ce.cb)
        /\ (~ce.a.fallback /\ ~ce.b.fallback /\ SameErr(ce.a.stats, ce.b.stats)
              /\ InlierRatioLeq(ce.a.stats, ce.b.stats))
             => FracLeq(ce.ca, ce.cb)
        /\ (ce.a.fallback /\ ce.b.fallback
              /\ ce.a.doc_area_ratio <= ce.b.doc_area_ratio)
             => FracLeq(ce.ca, ce.cb)

\* a larger inlier ratio at the same error gave a strictly larger confidence
C4_Witness ==
    /\ ce.pc = "done"
    /\ ~ce.a.fallback /\ ~ce.b.fallback
    /\ SameErr(ce.a.stats, ce.b.stats)
    /\ InlierRatioLeq(ce.a.stats, ce.b.stats)
    /\ ce.a.stats.matches # ce.b.stats.matches
    /\ ~FracLeq(ce.cb, ce.ca)

(***************************************************************************)
(* The segmentation pipelines:                                             *)
(*   process_single_image, process_single_image_with_alignment and         *)
(*   crop_questions_from_images (src/Models/Segment.py), and process_images*)
(*   (src/frontend/src/Components/Principal/Pages/Segment.py).             *)
(* Units: rotation in whole degrees, scales and area ratios in thousandths,*)
(* perspective distortion and residual MAD in whole units, confidences as  *)
(* fractions.  A homography is kept as what decompose_homography and       *)
(* measure_perspective_from_template_to_image report for it.               *)
(***************************************************************************)
TEMPLATE_W == 1700

TEMPLATE_H == 2200

\* 0.60
CONFIDENCE_THRESHOLD == <<60, 100>>

RESIDUAL_MAD_THRESHOLD == 30

ROTATION_THRESHOLD_DEG == 10

SCALE_PERCENT_THRESHOLD == 10

PERSPECTIVE_DISTORTION_PCT == 8

\* 0.004, in thousandths
MIN_DOC_AREA_RATIO == 4

\* 0.02, in hundredths
SIZE_TOL_PCT == 2

\* a value that is not None
Some(x) == [some |-> x]

\* a < b for fractions with positive denominators
FracLess(a, b) == a[1] * b[2] < b[1] * a[2]

\* (abs(w_img - TEMPLATE_W) <= SIZE_TOL_PCT * TEMPLATE_W) and (... TEMPLATE_H)
SizeDiffOk(w_img, h_img) ==
    /\ Abs(w_img - TEMPLATE_W) * 100 <= SIZE_TOL_PCT * TEMPLATE_W
    /\ Abs(h_img - TEMPLATE_H) * 100 <= SIZE_TOL_PCT * TEMPLATE_H

\* transform_params and perspective_metrics when no homography was used
IdentityGeom ==
    [rotation_deg |-> 0, scale_x |-> 1000, scale_y |-> 1000, perspective_pct |-> 0]

\* the heuristics with the rotation compared without abs()
ManualReasons_signed(confidence, residual_mad, geom) ==
    (IF FracLess(confidence, CONFIDENCE_THRESHOLD) THEN << "low_confidence" >> ELSE << >>)
    \o (IF residual_mad # None /\ residual_mad.some > RESIDUAL_MAD_THRESHOLD
        THEN << "high_residual_mad" >> ELSE << >>)
    \o (IF geom.rotation_deg > ROTATION_THRESHOLD_DEG
        THEN << "high_rotation" >> ELSE << >>)
    \o (IF Max2(Abs(geom.scale_x - 1000), Abs(geom.scale_y - 1000))
              > SCALE_PERCENT_THRESHOLD * 10
        THEN << "scale_change" >> ELSE << >>)
    \o (IF geom.perspective_pct > PERSPECTIVE_DISTORTION_PCT
        THEN << "perspective_distortion" >> ELSE << >>)

\* "Manual check heuristics": the reasons appended, in the order of the code.
\* A reason is kept as its tag; the number the code formats into the
\* parentheses after the tag is not kept.
ManualReasons(confidence, residual_mad, geom) ==
    (IF FracLess(confidence, CONFIDENCE_THRESHOLD) THEN << "low_confidence" >> ELSE << >>)
    \o (IF residual_mad # None /\ residual_mad.some > RESIDUAL_MAD_THRESHOLD
        THEN << "high_residual_mad" >> ELSE << >>)
    \o (IF Abs(geom.rotation_deg) > ROTATION_THRESHOLD_DEG
        THEN << "high_rotation" >> ELSE << >>)
    \o (IF Max2(Abs(geom.scale_x - 1000), Abs(geom.scale_y - 1000))
              > SCALE_PERCENT_THRESHOLD * 10
        THEN << "scale_change" >> ELSE << >>)
    \o (IF geom.perspective_pct > PERSPECTIVE_DISTORTION_PCT
        THEN << "perspective_distortion" >> ELSE << >>)

\* x in seq
InSeq(x, seq) == \E i \in 1..Len(seq) : seq[i] = x

\* how each pipeline can be run: the service functions build a blank white
\* template themselves; process_images has --template and --force_warp
Configs ==
    { [variant |-> "process_single_image", template |-> "blank", force_warp |-> FALSE],
      [variant |-> "process_single_image_with_alignment", template |-> "blank",
       force_warp |-> FALSE] }
    \cup { [variant |-> "process_images", template |-> t, force_warp |-> f] :
             t \in {"none", "image"}, f \in BOOLEAN }

\* image sizes (w, h): the template size, the largest size inside the 2%
\* tolerance, the smallest width outside it, and an A4 scan at 300 dpi
ImageSizes == { <<1700, 2200>>, <<1734, 2244>>, <<1735, 2200>>, <<2480, 3508>> }

\* what a homography can be found to do: rotations at and around the 10 degree
\* threshold and at 25 degrees, scales inside and outside 10%, perspective
\* distortion at and above 8%
Geoms ==
    { [rotation_deg |-> r, scale_x |-> sc[1], scale_y |-> sc[2], perspective_pct |-> p] :
        r \in {0, 10, -11, 25},
        sc \in { <<1000, 1000>>, <<1099, 1000>>, <<1000, 850>> },
        p \in {0, 8, 9} }

\* stats of a feature match that produced a homography (RANSAC keeps as
\* inliers the matches reprojected within 5 px)
HomographyStats ==
    { [matches |-> 4, inliers |-> 4, err_inf |-> FALSE, err10 |-> 0],
      [matches |-> 5, inliers |-> 4, err_inf |-> FALSE, err10 |-> 0],
      [matches |-> 7, inliers |-> 4, err_inf |-> FALSE, err10 |-> 20],
      [matches |-> 10, inliers |-> 4, err_inf |-> FALSE, err10 |-> 49] }

\* stats of a feature match that produced none: no descriptors, fewer than
\* four matches, findHomography returned None
NoHomographyStats ==
    { EmptyStats,
      [matches |-> 3, inliers |-> 0, err_inf |-> TRUE, err10 |-> 0],
      [matches |-> 6, inliers |-> 0, err_inf |-> TRUE, err10 |-> 0] }

\* what compute_homography_via_features can return for a template: ORB finds
\* no keypoint in the blank white template, so des1 is None
FeatureResults(template) ==
    IF template = "blank" THEN { [H |-> None, stats |-> EmptyStats] }
    ELSE { [H |-> None, stats |-> st] : st \in NoHomographyStats }
         \cup { [H |-> g, stats |-> st] : g \in Geoms, st \in HomographyStats }

\* area ratios of a four-cornered contour (contours below MIN_DOC_AREA_RATIO
\* are skipped)
ContourRatios == {4, 150, 200, 600, 950}

\* area ratios of the minimum-area rectangle around the Hough segments
HoughRatios == {0, 600, 1200}

\* residual MAD values against the template
MadValues == {10, 30, 31}

\* what a question crop can be
CropKinds == {"invalid_crop", "mostly_blank", "inked"}

\* at most MaxCrops question boxes on a page
MaxCrops == 2

CropSeqs == UNION { [1..n -> CropKinds] : n \in 0..MaxCrops }

\* the transform_params that no threshold looks at: those of the branch
\* without a homography, and those decompose_homography computes, whose
\* values are not kept
NoOtherParams == [shear |-> 0, tx |-> 0, ty |-> 0, h20 |-> 0, h21 |-> 0]

DecomposedParams == [decomposed |-> TRUE]

\* the locals of one run before the image is loaded
SegStart ==
    [pc |-> "start", variant |-> "process_single_image", template |-> "blank",
     force_warp |-> FALSE, w_img |-> TEMPLATE_W, h_img |-> TEMPLATE_H,
     size_diff_ok |-> TRUE, warped |-> "None", used_method |-> "None", H |-> None,
     stats |-> EmptyStats, confidence |-> <<0, 1>>, doc_area_ratio |-> 0,
     found |-> FALSE, found_area_ratio |-> 0, found_by |-> "None",
     hough_tried |-> FALSE, doc_outcome |-> "none", residual_mad |-> None,
     geom |-> IdentityGeom, other_params |-> NoOtherParams,
     manual_reasons |-> << >>, manual_flag |-> FALSE, crops |-> << >>]

InitSegment ==
    /\ seg = SegStart
    /\ ord = Off /\ fc = Off /\ sr = Off /\ ce = Off /\ ap = Off /\ wp = Off /\ hm = Off /\ ab = Off /\ qv = Off
    /\ bt = Off /\ bw = Off /\ lq = Off /\ cb = Off

\* a loop body that starts on the image without assigning its locals anew
Loaded_without_reset(st, cfg, size) ==
    [(IF cfg.variant = "process_images" THEN st ELSE SegStart) EXCEPT
       !.pc = IF cfg.variant = "process_single_image" THEN "size" ELSE "features",
       !.variant = cfg.variant, !.template = cfg.template,
       !.force_warp = cfg.force_warp,
       !.w_img = size[1], !.h_img = size[2],
       !.size_diff_ok = SizeDiffOk(size[1], size[2])]

\* the locals once the image is decoded and size_diff_ok computed, from the
\* locals st the run had before.  The loop body of process_images assigns
\* warped, used_method, H_template_to_img, H_img_to_template, stats,
\* confidence and doc_area_ratio and leaves its other locals as the image
\* before left them; a call of a service function starts with new locals.
\* hough_tried and doc_outcome tell what was tried for this image.
Loaded(st, cfg, size) ==
    [(IF cfg.variant = "process_images" THEN st ELSE SegStart) EXCEPT
       !.pc = IF cfg.variant = "process_single_image" THEN "size" ELSE "features",
       !.variant = cfg.variant, !.template = cfg.template,
       !.force_warp = cfg.force_warp,
       !.w_img = size[1], !.h_img = size[2],
       !.size_diff_ok = SizeDiffOk(size[1], size[2]),
       !.warped = "None", !.used_method = "None", !.H = None,
       !.stats = EmptyStats, !.confidence = <<0, 1>>, !.doc_area_ratio = 0,
       !.hough_tried = FALSE, !.doc_outcome = "none"]

\* the image is decoded, size_diff_ok computed and the locals reset
LoadImage ==
    /\ seg.pc = "start"
    /\ \E cfg \in Configs, size \in ImageSizes : seg' = Loaded(seg, cfg, size)
    /\ UNCHANGED <<ord, fc, sr, ce, ap, wp, hm, ab, qv, bt, bw, lq, cb>>

\* "1) Try feature homography": r is the result of
\* compute_homography_via_features, inv_ok and warp_ok tell whether
\* safe_inverse and warp_image_with_H returned something
AfterFeatures(st, r, inv_ok, warp_ok) ==
    IF r.H # None /\ inv_ok /\ warp_ok
    THEN [st EXCEPT !.pc = "size", !.stats = r.stats, !.warped = "feature",
                    !.used_method = "feature_homography", !.H = r.H,
                    !.confidence =
                        compute_alignment_confidence_from_stats(r.stats, FALSE, 0)]
    ELSE [st EXCEPT !.pc = "size", !.stats = r.stats]

\* "if template_gray is not None and not args.force_warp" (process_images)
FeaturesSkipped(st) ==
    st.variant = "process_images" /\ (st.template = "none" \/ st.force_warp)

TryFeatures ==
    /\ seg.pc = "features"
    /\ IF FeaturesSkipped(seg)
       THEN seg' = [seg EXCEPT !.pc = "size"]
       ELSE \E r \in FeatureResults(seg.template), inv_ok \in BOOLEAN, warp_ok \in BOOLEAN :
              seg' = AfterFeatures(seg, r, inv_ok, warp_ok)
    /\ UNCHANGED <<ord, fc, sr, ce, ap, wp, hm, ab, qv, bt, bw, lq, cb>>

\* an identity test that the service functions skip as process_images does
\* under --force_warp
IdentityAllowed_forced_in_service(st) ==
    st.size_diff_ok /\ st.variant = "process_images" /\ ~st.force_warp

\* the identity test of the step after: "if size_diff_ok" in the service
\* functions, "if size_diff_ok and not args.force_warp" in process_images
IdentityAllowed(st) ==
    st.size_diff_ok /\ ~(st.variant = "process_images" /\ st.force_warp)

\* the step taken when the feature step left no warped image
SizeChecked(st) ==
    IF st.warped # "None" THEN [st EXCEPT !.pc = "measure"]
    ELSE IF IdentityAllowed(st)
         THEN [st EXCEPT !.pc = "measure", !.warped = "copy",
                         !.used_method = "identity_size_match",
                         !.confidence = <<95, 100>>]
         ELSE [st EXCEPT !.pc = "contours"]

SizeCheck ==
    /\ seg.pc = "size"
    /\ seg' = SizeChecked(seg)
    /\ UNCHANGED <<ord, fc, sr, ce, ap, wp, hm, ab, qv, bt, bw, lq, cb>>

\* "found = False; found_corners = None; found_area_ratio = 0.0" and the loop
\* over the binarisations and their ten largest contours: c is None when no
\* contour has four corners, else the area ratio of the first that has
ContoursSearched(st, c) ==
    IF c = None
    THEN [st EXCEPT !.pc = IF st.variant = "process_single_image"
                           THEN "homography" ELSE "hough",
                    !.found = FALSE, !.found_area_ratio = 0, !.found_by = "None"]
    ELSE [st EXCEPT !.pc = "homography", !.found = TRUE,
                    !.found_area_ratio = c.some, !.found_by = "contours"]

Contours ==
    /\ seg.pc = "contours"
    /\ \E c \in {None} \cup {Some(r) : r \in ContourRatios} :
         seg' = ContoursSearched(seg, c)
    /\ UNCHANGED <<ord, fc, sr, ce, ap, wp, hm, ab, qv, bt, bw, lq, cb>>

\* "Hough-lines fallback" (not in process_single_image)
HoughSearched(st, c) ==
    IF c = None
    THEN [st EXCEPT !.pc = "homography", !.hough_tried = TRUE]
    ELSE [st EXCEPT !.pc = "homography", !.hough_tried = TRUE, !.found = TRUE,
                    !.found_area_ratio = c.some, !.found_by = "hough"]

Hough ==
    /\ seg.pc = "hough"
    /\ \E c \in {None} \cup {Some(r) : r \in HoughRatios} :
         seg' = HoughSearched(seg, c)
    /\ UNCHANGED <<ord, fc, sr, ce, ap, wp, hm, ab, qv, bt, bw, lq, cb>>

\* "If found corners, compute homography": g is the homography of the found
\* corners, outcome tells how far the candidate got
DocOutcomes == {"accepted", "no_inverse", "no_warp", "mostly_blank_warp"}

DocCandidate(st) == st.found /\ st.found_area_ratio > MIN_DOC_AREA_RATIO

DocWarped(st, g, outcome) ==
    IF ~DocCandidate(st) THEN [st EXCEPT !.pc = "lastresort"]
    ELSE IF outcome = "accepted"
         THEN [st EXCEPT !.pc = "lastresort", !.warped = "doc",
                         !.doc_outcome = outcome,
                         !.used_method = "doc_detect", !.H = g,
                         !.confidence =
                             compute_alignment_confidence_from_stats(
                                 EmptyStats, TRUE, st.found_area_ratio),
                         !.doc_area_ratio = st.found_area_ratio]
         ELSE [st EXCEPT !.pc = "lastresort", !.doc_outcome = outcome]

DocHomography ==
    /\ seg.pc = "homography"
    /\ \E g \in Geoms, outcome \in DocOutcomes : seg' = DocWarped(seg, g, outcome)
    /\ UNCHANGED <<ord, fc, sr, ce, ap, wp, hm, ab, qv, bt, bw, lq, cb>>

\* the last resort with the resize kept as a homography that scales the
\* image to the template
Fallback_resize_as_homography(st) ==
    IF st.warped # "None" THEN [st EXCEPT !.pc = "measure"]
    ELSE IF st.size_diff_ok
         THEN [st EXCEPT !.pc = "measure", !.warped = "copy",
                         !.used_method = "identity_after_failed_detection",
                         !.confidence = <<1, 2>>]
         ELSE [st EXCEPT !.pc = "measure", !.warped = "resize",
                         !.used_method = "simple_resize_fallback",
                         !.confidence = <<0, 1>>,
                         !.H = [rotation_deg |-> 0,
                                scale_x |-> (1000 * TEMPLATE_W) \div st.w_img,
                                scale_y |-> (1000 * TEMPLATE_H) \div st.h_img,
                                perspective_pct |-> 0]]

\* the last resort without its resize branch
Fallback_identity_only(st) ==
    IF st.warped # "None" \/ ~st.size_diff_ok THEN [st EXCEPT !.pc = "measure"]
    ELSE [st EXCEPT !.pc = "measure", !.warped = "copy",
                    !.used_method = "identity_after_failed_detection",
                    !.confidence = <<1, 2>>]

\* the last resort with the confidence of the identity branch in both branches
Fallback_half(st) ==
    IF st.warped # "None" THEN [st EXCEPT !.pc = "measure"]
    ELSE IF st.size_diff_ok
         THEN [st EXCEPT !.pc = "measure", !.warped = "copy",
                         !.used_method = "identity_after_failed_detection",
                         !.confidence = <<1, 2>>]
         ELSE [st EXCEPT !.pc = "measure", !.warped = "resize",
                         !.used_method = "simple_resize_fallback",
                         !.confidence = <<1, 2>>]

\* "Fallback to resize" / "Last resort fallback": if warped is None ...
Fallback(st) ==
    IF st.warped # "None" THEN [st EXCEPT !.pc = "measure"]
    ELSE IF st.size_diff_ok
         THEN [st EXCEPT !.pc = "measure", !.warped = "copy",
                         !.used_method = "identity_after_failed_detection",
                         !.confidence = <<1, 2>>]
         ELSE [st EXCEPT !.pc = "measure", !.warped = "resize",
                         !.used_method = "simple_resize_fallback",
                         !.confidence = <<0, 1>>]

LastResort ==
    /\ seg.pc = "lastresort"
    /\ seg' = Fallback(seg)
    /\ UNCHANGED <<ord, fc, sr, ce, ap, wp, hm, ab, qv, bt, bw, lq, cb>>

\* the residual MAD the run can compute: none without a template image, none
\* when the subtraction fails because the warped image is the unresized copy
\* of an image that is not exactly template-sized, else a value
Residuals(st) ==
    IF st.template = "none" THEN { None }
    ELSE IF st.warped = "copy" /\ <<st.w_img, st.h_img>> # <<TEMPLATE_W, TEMPLATE_H>>
         THEN { None }
         ELSE { Some(m) : m \in MadValues }

\* process_images only: "if confidence == 0.0: confidence =
\* compute_alignment_confidence_from_stats(stats, fallback=(used_method and
\* used_method.startswith('doc')), doc_area_ratio=doc_area_ratio)"
Recomputed(st) ==
    IF st.variant = "process_images" /\ st.confidence[1] = 0
    THEN compute_alignment_confidence_from_stats(
             st.stats, st.used_method = "doc_detect", st.doc_area_ratio)
    ELSE st.confidence

\* from "if warped is None" to "manual_flag = len(manual_reasons) > 0"
Measured(st, mad) ==
    LET geom == IF st.H # None THEN st.H ELSE IdentityGeom
        conf == Recomputed(st)
        reasons == ManualReasons(conf, mad, geom)
    IN  [st EXCEPT !.pc = "crops", !.residual_mad = mad, !.geom = geom,
                   !.other_params = IF st.H # None THEN DecomposedParams
                                    ELSE NoOtherParams,
                   !.confidence = conf, !.manual_reasons = reasons,
                   !.manual_flag = Len(reasons) > 0]

\* "if warped is None": process_images skips the image, the service
\* functions raise
MeasuredOrLeft(st, mad) ==
    IF st.warped = "None"
    THEN [st EXCEPT !.pc = IF st.variant = "process_images"
                           THEN "skipped" ELSE "raised"]
    ELSE Measured(st, mad)

Measure ==
    /\ seg.pc = "measure"
    /\ \E mad \in Residuals(seg) : seg' = MeasuredOrLeft(seg, mad)
    /\ UNCHANGED <<ord, fc, sr, ce, ap, wp, hm, ab, qv, bt, bw, lq, cb>>

RECURSIVE BlankTags(_)
\* one tag for every blank crop
BlankTags(crops) ==
    IF crops = << >> THEN << >>
    ELSE (IF Head(crops) = "mostly_blank" THEN <<"mostly_blank_crop">> ELSE << >>)
         \o BlankTags(Tail(crops))

\* a crop loop that appends the tag for every blank crop, without looking
\* whether it is among the reasons already
Cropped_every_blank(st, crops) ==
    IF st.variant # "process_single_image_with_alignment"
       /\ InSeq("mostly_blank", crops)
    THEN [st EXCEPT !.pc = "done", !.crops = crops,
                    !.manual_reasons = st.manual_reasons \o BlankTags(crops),
                    !.manual_flag = TRUE]
    ELSE [st EXCEPT !.pc = "done", !.crops = crops]

\* the crop loop: process_single_image and process_images add
\* "mostly_blank_crop" and set manual_flag; crop_questions_from_images keeps
\* the warnings with the crops and stores the metadata it got from
\* process_single_image_with_alignment as it is
Cropped(st, crops) ==
    IF st.variant # "process_single_image_with_alignment"
       /\ InSeq("mostly_blank", crops)
    THEN [st EXCEPT !.pc = "done", !.crops = crops,
                    !.manual_reasons = Append(st.manual_reasons, "mostly_blank_crop"),
                    !.manual_flag = TRUE]
    ELSE [st EXCEPT !.pc = "done", !.crops = crops]

Crops ==
    /\ seg.pc = "crops"
    /\ \E crops \in CropSeqs : seg' = Cropped(seg, crops)
    /\ UNCHANGED <<ord, fc, sr, ce, ap, wp, hm, ab, qv, bt, bw, lq, cb>>

NextSegment ==
    \/ LoadImage \/ TryFeatures \/ SizeCheck \/ Contours \/ Hough
    \/ DocHomography \/ LastResort \/ Measure \/ Crops

SpecSegment == InitSegment /\ [][NextSegment]_vars

\* the five thresholds, on the reported values
Breached(st) ==
    [low_confidence |-> st.confidence[1] * 100 < 60 * st.confidence[2],
     high_residual_mad |-> st.residual_mad # None /\ st.residual_mad.some > 30,
     high_rotation |-> st.geom.rotation_deg > 10 \/ st.geom.rotation_deg < -10,
     scale_change |-> \/ st.geom.scale_x > 1100 \/ st.geom.scale_x < 900
                      \/ st.geom.scale_y > 1100 \/ st.geom.scale_y < 900,
     perspective_distortion |-> st.geom.perspective_pct > 8]

ThresholdTags ==
    {"low_confidence", "high_residual_mad", "high_rotation", "scale_change",
     "perspective_distortion"}

\* C5: once an image is aligned, each of the five reason tags is among the
\* manual-check reasons exactly when its threshold is breached, the flag is
\* set whenever one is breached, and a rotation of 25 degrees gives the flag
\* and high_rotation.
C5_TagsIffBreached ==
    seg.pc \in {"crops", "done"} =>
        /\ \A t \in ThresholdTags :
             InSeq(t, seg.manual_reasons) <=> Breached(seg)[t]
        /\ (\E t \in ThresholdTags : Breached(seg)[t]) => seg.manual_flag
        /\ (seg.geom.rotation_deg = 25) =>
               seg.manual_flag /\ InSeq("high_rotation", seg.manual_reasons)

\* a run that reported a rotation of 25 degrees, flagged for it alone
C5_Witness ==
    /\ seg.pc = "done"
    /\ seg.geom.rotation_deg = 25
    /\ seg.manual_flag
    /\ seg.manual_reasons = << "high_rotation" >>

\* C6: in every variant that crops the questions, a crop classified mostly
\* blank sets the image's manual-check flag and adds mostly_blank_crop.
C6_BlankCropForcesFlag ==
    (seg.pc = "done" /\ InSeq("mostly_blank", seg.crops)) =>
        seg.manual_flag /\ InSeq("mostly_blank_crop", seg.manual_reasons)

\* a clean full-frame scan within the size tolerance: the residual is not
\* above 30, no crop is mostly blank, and a homography, where one was
\* estimated, is the identity
CleanScan(st) ==
    /\ st.size_diff_ok
    /\ st.residual_mad = None \/ st.residual_mad.some <= 30
    /\ ~InSeq("mostly_blank", st.crops)
    /\ st.H = None \/ st.H = IdentityGeom

\* C9: a clean scan within the size tolerance is reported as
\* identity_size_match (or a method that reports the identity transform)
\* with confidence at least 0.9 and no manual-check reason, in every variant
\* run without --force_warp.
C9_CleanScanIdentity ==
    (seg.pc = "done" /\ CleanScan(seg) /\ ~seg.force_warp) =>
        /\ seg.used_method = "identity_size_match" \/ seg.geom = IdentityGeom
        /\ seg.confidence[1] * 10 >= 9 * seg.confidence[2]
        /\ ~seg.manual_flag
        /\ seg.manual_reasons = << >>

\* C10: simple_resize_fallback is reported with confidence 0, the flag and
\* low_confidence; identity_size_match with confidence 0.95.
C10_FallbackConfidence ==
    seg.pc = "done" =>
        /\ (seg.used_method = "simple_resize_fallback") =>
               /\ seg.confidence[1] = 0
               /\ seg.manual_flag
               /\ InSeq("low_confidence", seg.manual_reasons)
        /\ (seg.used_method = "identity_size_match") =>
               seg.confidence[1] * 100 = 95 * seg.confidence[2]

(***************************************************************************)
(* align_page and main (src/Alignment/train.py).  A detector returns None  *)
(* (NoQuad) or the 4x2 array made by order_corners.  The expression        *)
(*   detect_quad_bright(pre) or detect_quad_lsd(pre) or                    *)
(*   detect_quad_minrect(pre)                                              *)
(* takes the truth value of every operand but the last; the truth value of *)
(* None is False, and taking the truth value of a numpy array of eight     *)
(* elements raises ValueError.                                             *)
(***************************************************************************)
A4_W == 2480

A4_H == 3508

\* squared length of the vector from p to q
NormSq(p, q) == (p[1] - q[1]) * (p[1] - q[1]) + (p[2] - q[2]) * (p[2] - q[2])

\* portrait = max(hA,hB) >= max(wA,wB), on the squared lengths
Portrait(quad) ==
    LET tl == quad[1]  tr == quad[2]  br == quad[3]  bl == quad[4]
    IN  Max2(NormSq(tr, br), NormSq(tl, bl)) >= Max2(NormSq(br, bl), NormSq(tr, tl))

\* quads a detector can return: order_corners of the corners of a page seen
\* upright or lying, at different offsets
PageQuads ==
    { order_corners(<< <<x0, y0>>, <<x0 + w, y0>>, <<x0 + w, y0 + h>>, <<x0, y0 + h>> >>) :
        x0 \in {0, 40}, y0 \in {0, 60}, w \in {700, 1000}, h \in {800, 1400} }

DetectorResults == { NoQuad } \cup PageQuads

DetectorOrder == << "bright", "lsd", "minrect" >>

ApStart ==
    [pc |-> "bright", consulted |-> << >>, bright |-> NoQuad, lsd |-> NoQuad,
     minrect |-> NoQuad, quad |-> NoQuad, error |-> "None", target |-> <<0, 0>>,
     aligned |-> FALSE, exit_code |-> -1, written |-> FALSE]

InitAlign ==
    /\ ap = ApStart
    /\ ord = Off /\ fc = Off /\ sr = Off /\ ce = Off /\ seg = Off /\ wp = Off /\ hm = Off /\ ab = Off /\ qv = Off
    /\ bt = Off /\ bw = Off /\ lq = Off /\ cb = Off

\* an operand of "or" that is not the last: a quad raises ValueError when its
\* truth value is taken, None passes on to the next operand
OrOperand(st, name, result, next_pc) ==
    IF result # NoQuad
    THEN [st EXCEPT ![name] = result, !.consulted = Append(st.consulted, name),
                    !.pc = "raised", !.error = "ValueError"]
    ELSE [st EXCEPT ![name] = result, !.consulted = Append(st.consulted, name),
                    !.pc = next_pc]

DetectBright ==
    /\ ap.pc = "bright"
    /\ \E r \in DetectorResults : ap' = OrOperand(ap, "bright", r, "lsd")
    /\ UNCHANGED <<ord, fc, sr, ce, seg, wp, hm, ab, qv, bt, bw, lq, cb>>

DetectLsd ==
    /\ ap.pc = "lsd"
    /\ \E r \in DetectorResults : ap' = OrOperand(ap, "lsd", r, "minrect")
    /\ UNCHANGED <<ord, fc, sr, ce, seg, wp, hm, ab, qv, bt, bw, lq, cb>>

\* the last operand is the value of the expression; "if quad is None: raise
\* RuntimeError"
LastOperand(st, name, result) ==
    IF result = NoQuad
    THEN [st EXCEPT ![name] = result, !.consulted = Append(st.consulted, name),
                    !.pc = "raised", !.error = "RuntimeError"]
    ELSE [st EXCEPT ![name] = result, !.consulted = Append(st.consulted, name),
                    !.pc = "warp", !.quad = result]

DetectMinrect ==
    /\ ap.pc = "minrect"
    /\ \E r \in DetectorResults : ap' = LastOperand(ap, "minrect", r)
    /\ UNCHANGED <<ord, fc, sr, ce, seg, wp, hm, ab, qv, bt, bw, lq, cb>>

\* the rest of align_page: target size, four_point_warp, normalisation, return
WarpPage ==
    /\ ap.pc = "warp"
    /\ ap' = [ap EXCEPT !.pc = "returned", !.aligned = TRUE,
                        !.target = IF Portrait(ap.quad) THEN <<A4_W, A4_H>>
                                   ELSE <<A4_H, A4_W>>]
    /\ UNCHANGED <<ord, fc, sr, ce, seg, wp, hm, ab, qv, bt, bw, lq, cb>>

\* main: "except Exception" prints the error and exits with 1 before anything
\* is written; otherwise the aligned image and the meta file are written
MainExit ==
    /\ ap.pc \in {"raised", "returned"}
    /\ ap' = IF ap.pc = "raised"
             THEN [ap EXCEPT !.pc = "exited", !.exit_code = 1]
             ELSE [ap EXCEPT !.pc = "exited", !.exit_code = 0, !.written = TRUE]
    /\ UNCHANGED <<ord, fc, sr, ce, seg, wp, hm, ab, qv, bt, bw, lq, cb>>

NextAlign == DetectBright \/ DetectLsd \/ DetectMinrect \/ WarpPage \/ MainExit

SpecAlign == InitAlign /\ [][NextAlign]_vars

\* the detectors called, with what they returned, in the order of the calls
Returned(st) == [i \in 1..Len(st.consulted) |-> st[st.consulted[i]]]

\* C8: the detectors are consulted in the order bright, lsd, minrect, a later
\* one only when all earlier ones returned no quad; when one returns a quad,
\* the first such quad is warped and align_page returns an aligned image; it
\* fails only when all three return nothing.
C8_FirstQuadWins ==
    ap.pc = "exited" =>
        LET res == Returned(ap)
            n == Len(res)
        IN  /\ ap.consulted = SubSeq(DetectorOrder, 1, n)
            /\ \A i \in 1..(n - 1) : res[i] = NoQuad
            /\ (res[n] # NoQuad) =>
                   ap.aligned /\ ap.quad = res[n] /\ ap.exit_code = 0
            /\ (~ap.aligned) => (n = 3 /\ res[3] = NoQuad)

(***************************************************************************)
(* The warp selection of process, with best_warp (src/Alignment/model.py). *)
(* A quad is kept as the name of what produced it.                         *)
(***************************************************************************)

\* at most MaxCandidates deduplicated candidate quads
MaxCandidates == 5

\* scored[:4]
TopK == 4

WarpModes == {"auto", "gemini", "minrect"}

\* best_warp with n candidates; pick is the place, in the order of the layout
\* scores, of the candidate with the largest sharpness-weighted total
best_warp(n, pick) ==
    IF n = 0
    THEN [wr |-> "copy", used_quad |-> "None", branch |-> "no_quad", pick |-> 0]
    ELSE [wr |-> "warp", used_quad |-> "candidate", branch |-> "multiquad",
          pick |-> Min2(pick, Min2(n, TopK))]

\* warp_from_quad on corners that did not come from best_warp
FromQuad(quad, branch) ==
    [wr |-> "warp", used_quad |-> quad, branch |-> branch, pick |-> 0]

\* the warp selection with the corner service asked first in mode auto
WarpSelection_service_first(mode, use_gemini, ready, n, pick, cs_ok, cnt_ok) ==
    IF mode = "minrect"
    THEN IF cnt_ok THEN FromQuad("minrect", "minrect-only")
         ELSE best_warp(n, pick)
    ELSE IF use_gemini /\ ready /\ cs_ok
         THEN FromQuad("gemini", IF mode = "gemini" THEN "gemini-only"
                                 ELSE "auto->gemini")
         ELSE best_warp(n, pick)

\* "3) Warp selection (mode-based)": n and pick as in best_warp, cs_ok tells
\* whether gemini_corners returned corners, cnt_ok whether biggest_contour
\* found a contour in the paper mask
WarpSelection(mode, use_gemini, ready, n, pick, cs_ok, cnt_ok) ==
    IF mode = "gemini"
    THEN IF use_gemini /\ ready /\ cs_ok THEN FromQuad("gemini", "gemini-only")
         ELSE best_warp(n, pick)
    ELSE IF mode = "minrect"
         THEN IF cnt_ok THEN FromQuad("minrect", "minrect-only")
              ELSE best_warp(n, pick)
         ELSE LET b == best_warp(n, pick)
              IN  IF b.used_quad = "None" /\ use_gemini /\ ready /\ cs_ok
                  THEN FromQuad("gemini", "auto->gemini")
                  ELSE b

\* the calls that the warp selection makes, in the order it makes them
WarpCalls(mode, use_gemini, ready, n, cs_ok, cnt_ok) ==
    IF mode = "gemini"
    THEN IF use_gemini /\ ready
         THEN <<"gemini_corners">> \o
              (IF cs_ok THEN <<"warp_from_quad">> ELSE <<"best_warp">>)
         ELSE <<"best_warp">>
    ELSE IF mode = "minrect"
         THEN <<"biggest_contour">> \o
              (IF cnt_ok THEN <<"warp_from_quad">> ELSE <<"best_warp">>)
         ELSE <<"best_warp">> \o
              (IF n = 0 /\ use_gemini /\ ready
               THEN <<"gemini_corners">> \o
                    (IF cs_ok THEN <<"warp_from_quad">> ELSE << >>)
               ELSE << >>)

WpStart ==
    [pc |-> "start", warp_mode |-> "auto", use_gemini |-> FALSE, gem_ready |-> FALSE,
     candidates |-> 0, cs_ok |-> FALSE, cnt_ok |-> FALSE,
     sel |-> [wr |-> "None", used_quad |-> "None", branch |-> "none", pick |-> 0],
     calls |-> << >>, aligned_written |-> FALSE]

InitWarp ==
    /\ wp = WpStart
    /\ ord = Off /\ fc = Off /\ sr = Off /\ ce = Off /\ seg = Off /\ ap = Off /\ hm = Off /\ ab = Off /\ qv = Off
    /\ bt = Off /\ bw = Off /\ lq = Off /\ cb = Off

\* process is called: steps 0-2 (load, preprocess, normalise size)
StartProcess ==
    /\ wp.pc = "start"
    /\ \E mode \in WarpModes, ug \in BOOLEAN, ready \in BOOLEAN :
         wp' = [wp EXCEPT !.pc = "select", !.warp_mode = mode, !.use_gemini = ug,
                          !.gem_ready = ready]
    /\ UNCHANGED <<ord, fc, sr, ce, seg, ap, hm, ab, qv, bt, bw, lq, cb>>

SelectWarp ==
    /\ wp.pc = "select"
    /\ \E n \in 0..MaxCandidates, pick \in 1..TopK, cs_ok \in BOOLEAN, cnt_ok \in BOOLEAN :
         wp' = [wp EXCEPT !.pc = "selected", !.candidates = n, !.cs_ok = cs_ok,
                          !.cnt_ok = cnt_ok,
                          !.calls = WarpCalls(wp.warp_mode, wp.use_gemini,
                                              wp.gem_ready, n, cs_ok, cnt_ok),
                          !.sel = WarpSelection(wp.warp_mode, wp.use_gemini,
                                                wp.gem_ready, n, pick, cs_ok, cnt_ok)]
    /\ UNCHANGED <<ord, fc, sr, ce, seg, ap, hm, ab, qv, bt, bw, lq, cb>>

\* steps 4-8: orientation, deskew, final crop, rows, and the outputs
\* (aligned.png, layout.json, quality.json with warp_debug)
FinishProcess ==
    /\ wp.pc = "selected"
    /\ wp' = [wp EXCEPT !.pc = "done", !.aligned_written = TRUE]
    /\ UNCHANGED <<ord, fc, sr, ce, seg, ap, hm, ab, qv, bt, bw, lq, cb>>

NextWarp == StartProcess \/ SelectWarp \/ FinishProcess

SpecWarp == InitWarp /\ [][NextWarp]_vars

(***************************************************************************)
(* The three aligners side by side: a behaviour runs one of them.          *)
(***************************************************************************)
InitAligners == InitSegment \/ InitAlign \/ InitWarp

NextAligners == NextSegment \/ NextAlign \/ NextWarp

SpecAligners == InitAligners /\ [][NextAligners]_vars

\* no homography was accepted and the identity paths are closed: every
\* detection strategy of the segmentation pipeline failed
SegTotalFailure ==
    /\ seg.pc \in {"measure", "crops", "done", "raised", "skipped"}
    /\ seg.variant \in {"process_single_image", "process_single_image_with_alignment"}
    /\ seg.H = None
    /\ ~seg.size_diff_ok

\* all three detectors of align_page returned no quad
ApTotalFailure ==
    /\ ap.pc \in {"raised", "exited"}
    /\ Len(ap.consulted) = 3
    /\ ap.bright = NoQuad /\ ap.lsd = NoQuad /\ ap.minrect = NoQuad

\* process found no quad by any means of its warp mode
WpTotalFailure ==
    /\ wp.pc \in {"selected", "done"}
    /\ wp.sel.used_quad = "None"

\* C7 as stated: on total alignment failure the caller gets an explicit
\* failure and no aligned image, from align_page/main, from
\* process_single_image(_with_alignment) and from best_warp/process.
C7_TotalFailureIsExplicit ==
    /\ ApTotalFailure => (ap.error # "None" /\ ~ap.aligned /\ ~ap.written)
    /\ SegTotalFailure => (seg.warped = "None" /\ seg.used_method = "None")
    /\ WpTotalFailure => (wp.sel.wr = "None" /\ ~wp.aligned_written)

\* C7, amended: on total alignment failure align_page raises RuntimeError and
\* main exits with 1 without writing; process_single_image and
\* process_single_image_with_alignment return the image resized to the
\* template as simple_resize_fallback with confidence 0, the manual-check
\* flag and low_confidence; best_warp returns the unwarped copy with no quad
\* and branch no_quad, and process goes on with it.
C7_TotalFailureHandling ==
    /\ (ApTotalFailure /\ ap.pc = "exited") =>
           /\ ap.error = "RuntimeError" /\ ap.exit_code = 1
           /\ ~ap.aligned /\ ~ap.written
    /\ (SegTotalFailure /\ seg.pc \in {"crops", "done"}) =>
           /\ seg.warped = "resize" /\ seg.used_method = "simple_resize_fallback"
           /\ seg.confidence[1] = 0
           /\ seg.manual_flag /\ InSeq("low_confidence", seg.manual_reasons)
    /\ WpTotalFailure =>
           /\ wp.sel.wr = "copy" /\ wp.sel.branch = "no_quad"
           /\ (wp.pc = "done") => wp.aligned_written

\* process_single_image_with_alignment found no quad on an image of another
\* size and returned the resized image
C7_Witness ==
    /\ seg.pc = "done"
    /\ seg.variant = "process_single_image_with_alignment"
    /\ ~seg.found
    /\ SegTotalFailure
    /\ seg.used_method = "simple_resize_fallback"

\* ------------------------------------------------------------------------
\* Homography analysis (Models/Segment.py and Pages/Segment.py, identical):
\* measure_perspective_from_template_to_image, decompose_homography,
\* safe_inverse.  A homography is a 3x3 integer matrix, its entries in
\* thousandths; pixel coordinates and lengths are whole pixels, the
\* distortion whole percent.
\* ------------------------------------------------------------------------

\* n / d rounded to the nearest integer, d # 0
RoundDiv(n, d) ==
    IF d > 0 THEN (2 * n + d) \div (2 * d)
    ELSE (2 * (0 - n) + (0 - d)) \div (2 * (0 - d))

RECURSIVE IsqrtIn(_, _, _)
IsqrtIn(n, lo, hi) ==
    IF lo >= hi THEN lo
    ELSE LET mid == (lo + hi + 1) \div 2
         IN IF mid * mid <= n THEN IsqrtIn(n, mid, hi)
            ELSE IsqrtIn(n, lo, mid - 1)

\* np.linalg.norm of an integer vector, whole pixels
Isqrt(n) == IsqrtIn(n, 0, 46340)

Norm(p, q) == Isqrt(NormSq(p, q))

\* the corners array of measure_perspective_from_template_to_image
TemplateCorners(template_w, template_h) ==
    << <<0, 0>>, <<template_w - 1, 0>>,
       <<template_w - 1, template_h - 1>>, <<0, template_h - 1>> >>

\* cv2.perspectiveTransform of one point: the division by w, and 0 when w = 0
perspectiveTransform(pt, H) ==
    LET x == H[1][1] * pt[1] + H[1][2] * pt[2] + H[1][3]
        y == H[2][1] * pt[1] + H[2][2] * pt[2] + H[2][3]
        w == H[3][1] * pt[1] + H[3][2] * pt[2] + H[3][3]
    IN IF w = 0 THEN <<0, 0>> ELSE <<RoundDiv(x, w), RoundDiv(y, w)>>

SeqMax(s) == CHOOSE v \in {s[i] : i \in DOMAIN s} :
                 \A i \in DOMAIN s : s[i] <= v
SeqMin(s) == CHOOSE v \in {s[i] : i \in DOMAIN s} :
                 \A i \in DOMAIN s : s[i] >= v

measure_perspective_from_template_to_image(H, template_w, template_h) ==
    LET corners == TemplateCorners(template_w, template_h)
        mapped  == [i \in 1..4 |-> perspectiveTransform(corners[i], H)]
        lens    == [i \in 1..4 |-> Norm(mapped[(i % 4) + 1], mapped[i])]
    IN [corner_points_image |-> mapped,
        side_lengths |-> lens,
        perspective_distortion_pct |->
            IF SeqMin(lens) <= 0 THEN 0
            ELSE (SeqMax(lens) * 100) \div SeqMin(lens) - 100]

\* template-to-image maps: a scaling (uniform or not) followed by a
\* translation, with or without perspective terms
ScalePairs == {<<500, 500>>, <<1000, 1000>>, <<1500, 1500>>, <<2000, 2000>>,
               <<1000, 1200>>, <<1294, 1000>>}
Shifts == {<<0, 0>>, <<40, 0>>, <<0, 60>>, <<40, 60>>, <<-25, 0>>, <<-25, 60>>}
PerspectiveTerms == {<<0, 0>>, <<1, 0>>, <<0, 1>>}

TemplateMaps ==
    { << <<s[1], 0, 1000 * t[1]>>, <<0, s[2], 1000 * t[2]>>,
         <<p[1], p[2], 1000>> >> :
        s \in ScalePairs, t \in Shifts, p \in PerspectiveTerms }

InitPersp ==
    /\ hm \in {[pc |-> "H", H |-> H] : H \in TemplateMaps}
    /\ ord = Off /\ fc = Off /\ sr = Off /\ ce = Off /\ seg = Off
    /\ ap = Off /\ wp = Off /\ ab = Off /\ qv = Off
    /\ bt = Off /\ bw = Off /\ lq = Off /\ cb = Off

MeasurePerspective ==
    /\ hm.pc = "H"
    /\ hm' = [pc |-> "measured", H |-> hm.H,
              persp |-> measure_perspective_from_template_to_image(
                            hm.H, TEMPLATE_W, TEMPLATE_H)]
    /\ UNCHANGED <<ord, fc, sr, ce, seg, ap, wp, ab, qv, bt, bw, lq, cb>>

NextPersp == MeasurePerspective

SpecPersp == InitPersp /\ [][NextPersp]_vars

\* bottom row [0, 0, 1] after the normalisation by H[2,2]
PurelyAffine(H) == H[3][1] = 0 /\ H[3][2] = 0 /\ H[3][3] # 0

\* C11: the reported perspective_distortion_pct is (max_side / min_side - 1)
\* * 100 over the four sides of the mapped template rectangle, and it is 0
\* whenever the template-to-image map is purely affine (a translation, a
\* uniform scaling of the 1700x2200 template)
C11_AffineReportsZero ==
    hm.pc = "measured" =>
        /\ hm.persp.perspective_distortion_pct =
               (SeqMax(hm.persp.side_lengths) * 100)
                   \div SeqMin(hm.persp.side_lengths) - 100
        /\ PurelyAffine(hm.H) => hm.persp.perspective_distortion_pct = 0

\* ---- decompose_homography ----------------------------------------------
\* Rotations are hundredths of a degree, scales thousandths.  The angles are
\* those whose cosine and sine are exact fifths: <<5 cos, 5 sin, angle>>.
Angles ==
    {<<5, 0, 0>>, <<4, 3, 3687>>, <<3, 4, 5313>>, <<0, 5, 9000>>,
     <<-3, 4, 12687>>, <<-4, 3, 14313>>, <<-5, 0, 18000>>,
     <<4, -3, -3687>>, <<3, -4, -5313>>, <<0, -5, -9000>>,
     <<-3, -4, -12687>>, <<-4, -3, -14313>>}

\* math.degrees(math.atan2(y, x)) of a vector along one of the Angles
atan2_deg(y, x) ==
    (CHOOSE e \in Angles : e[1] * y = e[2] * x /\ e[1] * x + e[2] * y > 0)[3]

\* np.linalg.svd of the 2x2 block A = [[a, b], [c, d]], det A > 0, in closed
\* form: the singular values s1 >= s2 have s1 + s2 = |(a + d, c - b)| and
\* s1 - s2 = |(a - d, b + c)|, and U @ Vt is the rotation along (a + d, c - b).
\* numpy returns the singular values in descending order.
svd(A) ==
    LET a == A[1][1]
        b == A[1][2]
        c == A[2][1]
        d == A[2][2]
        plus  == Isqrt((a + d) * (a + d) + (c - b) * (c - b))
        minus == Isqrt((a - d) * (a - d) + (b + c) * (b + c))
    IN [s_vals |-> <<(plus + minus) \div 2, (plus - minus) \div 2>>,
        R_cos |-> a + d, R_sin |-> c - b, R_norm |-> plus]

\* H[2,2] is the common denominator of the entries, so H / H[2,2] has the
\* entries H[i][j] / H[3][3]
decompose_homography(H) ==
    LET den == H[3][3]
        A == << <<H[1][1], H[1][2]>>, <<H[2][1], H[2][2]>> >>
        usv == svd(A)
        scales == usv.s_vals
        \* S = R.T @ A, shear = S[0,1]
        S01 == RoundDiv(usv.R_cos * A[1][2] + usv.R_sin * A[2][2], usv.R_norm)
    IN [rotation_deg |-> atan2_deg(usv.R_sin, usv.R_cos),
        scale_x |-> RoundDiv(scales[1] * 1000, den),
        scale_y |-> RoundDiv(scales[2] * 1000, den),
        shear |-> RoundDiv(S01 * 1000, den),
        tx |-> RoundDiv(H[1][3], den),
        ty |-> RoundDiv(H[2][3], den),
        h20 |-> RoundDiv(H[3][1] * 1000, den),
        h21 |-> RoundDiv(H[3][2] * 1000, den)]

\* the homography of a rotation by the angle e after the scaling (sx, sy),
\* with no shear and no perspective terms: R(theta) @ diag(sx, sy)
RotationScale(e, sx, sy) ==
    << <<e[1] * sx, (0 - e[2]) * sy, 0>>,
       <<e[2] * sx, e[1] * sy, 0>>,
       <<0, 0, 5000>> >>

KnownScales == {800, 1000, 1250}

InitDecomp ==
    /\ hm \in {[pc |-> "built", theta |-> e[3], sx |-> sx, sy |-> sy,
                H |-> RotationScale(e, sx, sy)] :
                  e \in Angles, sx \in KnownScales, sy \in KnownScales}
    /\ ord = Off /\ fc = Off /\ sr = Off /\ ce = Off /\ seg = Off
    /\ ap = Off /\ wp = Off /\ ab = Off /\ qv = Off
    /\ bt = Off /\ bw = Off /\ lq = Off /\ cb = Off

Decompose ==
    /\ hm.pc = "built"
    /\ hm' = [hm EXCEPT !.pc = "decomposed"] @@
             [decomp |-> decompose_homography(hm.H)]
    /\ UNCHANGED <<ord, fc, sr, ce, seg, ap, wp, ab, qv, bt, bw, lq, cb>>

NextDecomp == Decompose

SpecDecomp == InitDecomp /\ [][NextDecomp]_vars

\* C12: for a homography built from a known rotation theta in (-180, 180]
\* and known positive scales (sx, sy), without shear or perspective, the
\* decomposition returns the rotation within 0.5 degrees of theta and each
\* scale within 2% of the known one, also when sx < sy
C12_DecomposeRecovers ==
    hm.pc = "decomposed" =>
        /\ Abs(hm.decomp.rotation_deg - hm.theta) <= 50
        /\ Abs(hm.decomp.scale_x - hm.sx) * 100 <= 2 * hm.sx
        /\ Abs(hm.decomp.scale_y - hm.sy) * 100 <= 2 * hm.sy

\* ---- safe_inverse and the corner round trip -----------------------------
Det3(H) ==
      H[1][1] * (H[2][2] * H[3][3] - H[2][3] * H[3][2])
    - H[1][2] * (H[2][1] * H[3][3] - H[2][3] * H[3][1])
    + H[1][3] * (H[2][1] * H[3][2] - H[2][2] * H[3][1])

Adjugate(H) ==
    << <<H[2][2] * H[3][3] - H[2][3] * H[3][2],
         H[1][3] * H[3][2] - H[1][2] * H[3][3],
         H[1][2] * H[2][3] - H[1][3] * H[2][2]>>,
       <<H[2][3] * H[3][1] - H[2][1] * H[3][3],
         H[1][1] * H[3][3] - H[1][3] * H[3][1],
         H[1][3] * H[2][1] - H[1][1] * H[2][3]>>,
       <<H[2][1] * H[3][2] - H[2][2] * H[3][1],
         H[1][2] * H[3][1] - H[1][1] * H[3][2],
         H[1][1] * H[2][2] - H[1][2] * H[2][1]>> >>

Transpose(H) == [i \in 1..3 |-> [j \in 1..3 |-> H[j][i]]]

\* the transpose in place of the inverse
safe_inverse_transposed(H) ==
    IF Det3(H) = 0 THEN NoQuad ELSE Transpose(H)

\* np.linalg.inv raises LinAlgError on a singular matrix, which safe_inverse
\* turns into None.  The inverse is Adjugate(H) / Det3(H); the scalar is left
\* out, every use of a homography dividing by the third coordinate.
safe_inverse(H) ==
    IF Det3(H) = 0 THEN NoQuad ELSE Adjugate(H)

\* H applied to a point in homogeneous coordinates <<x, y, w>>, and the
\* division of cv2.perspectiveTransform kept as the third coordinate (a
\* point with w = 0 is mapped to (0, 0))
ApplyH(H, p) ==
    LET x == H[1][1] * p[1] + H[1][2] * p[2] + H[1][3] * p[3]
        y == H[2][1] * p[1] + H[2][2] * p[2] + H[2][3] * p[3]
        w == H[3][1] * p[1] + H[3][2] * p[2] + H[3][3] * p[3]
    IN IF w = 0 THEN <<0, 0, 1>>
       ELSE IF w < 0 THEN <<0 - x, 0 - y, 0 - w>> ELSE <<x, y, w>>

\* image-space quadrilateral maps of the template rectangle, entries small
\* integers: scalings, quarter turns, shears, translations and perspective
\* terms, the singular ones included
RoundTripMaps ==
    { << <<a[1], a[2], t[1]>>, <<a[3], a[4], t[2]>>, <<p[1], p[2], 2>> >> :
        a \in {<<2, 0, 0, 2>>, <<1, 0, 0, 3>>, <<0, -2, 2, 0>>,
               <<3, 1, 0, 2>>, <<2, 0, 1, 0>>, <<1, 2, 2, 4>>, <<0, 0, 0, 2>>},
        t \in {<<0, 0>>, <<40, 0>>, <<-25, 60>>},
        p \in {<<0, 0>>, <<1, 0>>, <<0, 1>>, <<1, 1>>} }

InitRound ==
    /\ hm \in {[pc |-> "estimated", H_t2i |-> H] : H \in RoundTripMaps}
    /\ ord = Off /\ fc = Off /\ sr = Off /\ ce = Off /\ seg = Off
    /\ ap = Off /\ wp = Off /\ ab = Off /\ qv = Off
    /\ bt = Off /\ bw = Off /\ lq = Off /\ cb = Off

\* H_i2t = safe_inverse(H_t2i); the pair is used only if H_i2t is not None
Invert ==
    /\ hm.pc = "estimated"
    /\ LET H_i2t == safe_inverse(hm.H_t2i)
       IN hm' = [pc |-> IF H_i2t = NoQuad THEN "rejected" ELSE "accepted",
                 H_t2i |-> hm.H_t2i, H_i2t |-> H_i2t]
    /\ UNCHANGED <<ord, fc, sr, ce, seg, ap, wp, ab, qv, bt, bw, lq, cb>>

\* the four corners mapped into the photograph and back
MapCorners ==
    /\ hm.pc = "accepted"
    /\ LET corners == TemplateCorners(TEMPLATE_W, TEMPLATE_H)
           image == [i \in 1..4 |->
                        ApplyH(hm.H_t2i, <<corners[i][1], corners[i][2], 1>>)]
       IN hm' = [hm EXCEPT !.pc = "mapped"] @@
                [corners |-> corners, image |-> image,
                 back |-> [i \in 1..4 |-> ApplyH(hm.H_i2t, image[i])]]
    /\ UNCHANGED <<ord, fc, sr, ce, seg, ap, wp, ab, qv, bt, bw, lq, cb>>

NextRound == Invert \/ MapCorners

SpecRound == InitRound /\ [][NextRound]_vars

\* |n / d - v| <= 1/2, for d > 0
WithinHalf(n, d, v) ==
    LET q == n \div d
        r == n % d
    IN \/ q = v /\ 2 * r <= d
       \/ q = v - 1 /\ 2 * r >= d

Called(f) == \E i \in DOMAIN wp.calls : wp.calls[i] = f

\* every call of g comes after a call of f
CalledBefore(f, g) ==
    \A j \in DOMAIN wp.calls :
        wp.calls[j] = g => \E i \in 1..(j - 1) : wp.calls[i] = f

WarpSelected == wp.pc \in {"selected", "done"}

\* C14: in warp mode auto the corner service is called only after best_warp
\* has returned no quad, and only with use_gemini enabled and the service
\* ready; when best_warp returns a quad the service is never called and the
\* quad and warp of best_warp are the ones used
C14_AutoLocalFirst ==
    (WarpSelected /\ wp.warp_mode = "auto") =>
        /\ Called("gemini_corners") =>
               /\ CalledBefore("best_warp", "gemini_corners")
               /\ wp.candidates = 0
               /\ wp.use_gemini /\ wp.gem_ready
        /\ wp.candidates > 0 =>
               /\ ~Called("gemini_corners")
               /\ \E pick \in 1..TopK : wp.sel = best_warp(wp.candidates, pick)
               /\ wp.sel.used_quad = "candidate" /\ wp.sel.wr = "warp"

\* local detection found candidates while the service was enabled, ready and
\* able to answer, and process ran to its end
C14_Witness ==
    /\ wp.pc = "done" /\ wp.warp_mode = "auto"
    /\ wp.use_gemini /\ wp.gem_ready /\ wp.cs_ok
    /\ wp.candidates > 1 /\ wp.sel.pick > 1

\* C15: in warp mode gemini, and in warp mode minrect, process never runs
\* best_warp, whatever the corner service or the paper-mask contour search
\* returns
C15_SingleStrategyModes ==
    (WarpSelected /\ wp.warp_mode \in {"gemini", "minrect"}) =>
        ~Called("best_warp")

\* ---- which box final_hybrid_crop_after_deskew falls back to -------------
\* a box (x0, y0)-(x1, y1) padded and clamped to the 1%..99% frame
PadClamp(W, H, x0, y0, x1, y1, pad) ==
    [x0 |-> Max2(Int001(W), x0 - pad), y0 |-> Max2(Int001(H), y0 - pad),
     x1 |-> Min2(Int099(W), x1 + pad), y1 |-> Min2(Int099(H), y1 + pad)]

ValidBox(b) == b.x1 > b.x0 /\ b.y1 > b.y0

BoxArea(b) == (b.x1 - b.x0) * (b.y1 - b.y0)

AsRegion(W, H, b) == Region(W, H, b.x0, b.y0, b.x1, b.y1)

\* C16: when the ink box and the paper box both exist and their padded,
\* clamped intersection is empty or inverted, the crop is the one of the two
\* individually padded and clamped boxes that is valid and has the smaller
\* area; when only one box exists that one is used; when neither exists the
\* whole image is returned
C16_TighterValidBox ==
    fc.pc = "done" =>
        IF fc.ink # None /\ fc.b2 # None
        THEN LET a == PadClamp(fc.W, fc.H, fc.ink.x0, fc.ink.y0,
                               fc.ink.x1, fc.ink.y1, fc.pad)
                 b == PadClamp(fc.W, fc.H, fc.b2.x, fc.b2.y,
                               fc.b2.x + fc.b2.w, fc.b2.y + fc.b2.h, fc.pad)
                 i == PadClamp(fc.W, fc.H,
                               Max2(fc.ink.x0, fc.b2.x), Max2(fc.ink.y0, fc.b2.y),
                               Min2(fc.ink.x1, fc.b2.x + fc.b2.w),
                               Min2(fc.ink.y1, fc.b2.y + fc.b2.h), fc.pad)
             IN ~ValidBox(i) =>
                  /\ (ValidBox(a) /\ (~ValidBox(b) \/ BoxArea(a) < BoxArea(b)))
                         => fc.out = AsRegion(fc.W, fc.H, a)
                  /\ (ValidBox(b) /\ (~ValidBox(a) \/ BoxArea(b) < BoxArea(a)))
                         => fc.out = AsRegion(fc.W, fc.H, b)
        ELSE IF fc.ink # None
        THEN LET a == PadClamp(fc.W, fc.H, fc.ink.x0, fc.ink.y0,
                               fc.ink.x1, fc.ink.y1, fc.pad)
             IN ValidBox(a) => fc.out = AsRegion(fc.W, fc.H, a)
        ELSE IF fc.b2 # None
        THEN LET b == PadClamp(fc.W, fc.H, fc.b2.x, fc.b2.y,
                               fc.b2.x + fc.b2.w, fc.b2.y + fc.b2.h, fc.pad)
             IN ValidBox(b) => fc.out = AsRegion(fc.W, fc.H, b)
        ELSE fc.out = WholeImage(fc.W, fc.H)

\* ------------------------------------------------------------------------
\* model.py attach_answer_boxes.  Row bands and boxes are [x, y, w, h]; the
\* answer band is <<bx, by, bw, bh>>; contours is the list of bounding
\* rectangles [X, Y, W, H] that findContours yields in the band of a row;
\* confidences are hundredths; the id "q<n>" is kept as <<"q", n>>.
\* ------------------------------------------------------------------------
RECURSIVE InsertByTop(_, _)
InsertByTop(r, s) ==
    IF s = << >> THEN <<r>>
    ELSE IF r.y < s[1].y THEN <<r>> \o s
         ELSE <<s[1]>> \o InsertByTop(r, Tail(s))

RECURSIVE SortedByTop(_)
\* sorted(rows, key=lambda r: r[1]): stable, ascending in y
SortedByTop(rows) ==
    IF rows = << >> THEN << >>
    ELSE InsertByTop(rows[Len(rows)], SortedByTop(SubSeq(rows, 1, Len(rows) - 1)))

\* lines 399-406: the contours that look like an answer box, with twice their
\* distance to the row's midpoint ry
AnswerCandidates(contours, top, ry) ==
    SelectSeq([i \in DOMAIN contours |->
                  [d2 |-> Abs(2 * (top + contours[i].Y) + contours[i].H - 2 * ry),
                   box |-> contours[i]]],
              LAMBDA c : /\ 3 * c.box.H <= 4 * c.box.W /\ 4 * c.box.W <= 5 * c.box.H
                         /\ 12 <= c.box.W /\ c.box.W <= 200
                         /\ 12 <= c.box.H /\ c.box.H <= 200)

\* min(cand, key=lambda z: z[0]): the first of the nearest
Nearest(cand) ==
    cand[CHOOSE i \in DOMAIN cand :
             /\ \A j \in DOMAIN cand : cand[i].d2 <= cand[j].d2
             /\ \A j \in 1..(i - 1) : cand[j].d2 > cand[i].d2].box

\* a loop body that takes the row for an answer row only when its midpoint
\* is strictly inside the band
AttachRow_strictly_inside(r, band, contours, qid) ==
    LET ry == r.y + r.h \div 2
        has == band[2] < ry /\ ry < band[2] + band[4]
        top == Max2(band[2], r.y)
        cand == AnswerCandidates(contours, top, ry)
    IN [id |-> <<"q", qid>>, bbox |-> r,
        answer_box_bbox |->
            IF has /\ cand # << >>
            THEN LET b == Nearest(cand)
                 IN [x |-> band[1] + b.X, y |-> top + b.Y, w |-> b.W, h |-> b.H]
            ELSE None,
        type |-> IF has THEN "mcq" ELSE "text",
        confidence |-> IF has THEN 86 ELSE 72]

\* the body of the loop for one row
AttachRow(r, band, contours, qid) ==
    LET ry == r.y + r.h \div 2
        has == band[2] <= ry /\ ry <= band[2] + band[4]
        top == Max2(band[2], r.y)
        cand == AnswerCandidates(contours, top, ry)
    IN [id |-> <<"q", qid>>, bbox |-> r,
        answer_box_bbox |->
            IF has /\ cand # << >>
            THEN LET b == Nearest(cand)
                 IN [x |-> band[1] + b.X, y |-> top + b.Y, w |-> b.W, h |-> b.H]
            ELSE None,
        type |-> IF has THEN "mcq" ELSE "text",
        confidence |-> IF has THEN 86 ELSE 72]

\* the rows all numbered 1: qid never incremented
attach_answer_boxes_same_id(rows, band, contours) ==
    LET s == SortedByTop(rows)
    IN [i \in DOMAIN s |-> AttachRow(s[i], band, contours, 1)]

attach_answer_boxes(rows, band, contours) ==
    LET s == SortedByTop(rows)
    IN [i \in DOMAIN s |-> AttachRow(s[i], band, contours, i)]

MaxRows == 3

\* row bands of a 1000x1000 page, as split_rows cuts them: disjoint
BandPool ==
    {[x |-> 0, y |-> 100, w |-> 1000, h |-> 60],
     [x |-> 0, y |-> 300, w |-> 1000, h |-> 200],
     [x |-> 0, y |-> 600, w |-> 1000, h |-> 80],
     [x |-> 0, y |-> 900, w |-> 1000, h |-> 51]}

\* the row lists: the bands of the pool in any order, none twice
RowLists ==
    UNION {{s \in [1..n -> BandPool] : \A i, j \in 1..n : i # j => s[i] # s[j]} :
              n \in 0..MaxRows}

\* find_answer_band: the default band of a 1000x1000 page and two detected
\* ones, the second with its top at the midpoint of a row and its bottom at
\* the midpoint y + h//2 of a row of odd height
AnswerBands == {<<720, 150, 260, 730>>, <<640, 320, 300, 500>>,
                <<640, 400, 300, 525>>}

ContourLists ==
    {<< >>,
     <<[X |-> 10, Y |-> 5, W |-> 30, H |-> 30]>>,
     <<[X |-> 5, Y |-> 5, W |-> 100, H |-> 20],
       [X |-> 10, Y |-> 0, W |-> 30, H |-> 30],
       [X |-> 60, Y |-> 20, W |-> 40, H |-> 40]>>}

InitAttach ==
    /\ ab \in {[pc |-> "rows", rows |-> rows, band |-> band,
                contours |-> cs, out |-> << >>] :
                  rows \in RowLists, band \in AnswerBands, cs \in ContourLists}
    /\ ord = Off /\ fc = Off /\ sr = Off /\ ce = Off /\ seg = Off
    /\ ap = Off /\ wp = Off /\ hm = Off /\ qv = Off
    /\ bt = Off /\ bw = Off /\ lq = Off /\ cb = Off

AttachAnswerBoxes ==
    /\ ab.pc = "rows"
    /\ ab' = [ab EXCEPT !.pc = "attached",
                        !.out = attach_answer_boxes(ab.rows, ab.band, ab.contours)]
    /\ UNCHANGED <<ord, fc, sr, ce, seg, ap, wp, hm, qv, bt, bw, lq, cb>>

NextAttach == AttachAnswerBoxes

SpecAttach == InitAttach /\ [][NextAttach]_vars

\* C17: attach_answer_boxes emits exactly one Row per input row band, in
\* increasing order of the top coordinate whatever the order of the input
\* list, with the ids q1, q2, ..., qN in that order, no gap and no repeat
C17_OneRowPerBandNumbered ==
    ab.pc = "attached" =>
        /\ Len(ab.out) = Len(ab.rows)
        /\ \A i \in DOMAIN ab.rows :
               Cardinality({k \in DOMAIN ab.out : ab.out[k].bbox = ab.rows[i]}) = 1
        /\ \A k \in 1..(Len(ab.out) - 1) : ab.out[k].bbox.y < ab.out[k + 1].bbox.y
        /\ \A k \in DOMAIN ab.out : ab.out[k].id = <<"q", k>>

\* three rows given bottom row first
C17_Witness ==
    /\ ab.pc = "attached"
    /\ Len(ab.rows) = 3
    /\ ab.rows[1].y > ab.rows[2].y /\ ab.rows[2].y > ab.rows[3].y

\* ---- the fallback order of the segmentation pipelines -------------------
AfterDetection == seg.pc \in {"lastresort", "measure", "crops", "done", "skipped", "raised"}

\* C18: in process_single_image_with_alignment and process_images, when the
\* warp of a quad found by the contour search is rejected as mostly blank,
\* the Hough-line estimate is still attempted before the identity / resize
\* last resort, as it is when the contour search finds no quad
C18_HoughAfterRejectedWarp ==
    (/\ seg.variant \in {"process_single_image_with_alignment", "process_images"}
     /\ AfterDetection
     /\ seg.found_by = "contours"
     /\ seg.doc_outcome = "mostly_blank_warp") => seg.hough_tried

AlignedMethods ==
    {"feature_homography", "identity_size_match", "doc_detect",
     "identity_after_failed_detection", "simple_resize_fallback"}

\* C19: in process_single_image and process_single_image_with_alignment no
\* detection failure, inversion failure, warp failure or rejected warp aborts
\* the run: after the alignment stage the aligned image is not None and
\* used_method is one of the five methods, and the "Could not produce warped
\* aligned image" error is never raised
C19_AlignmentNeverAborts ==
    seg.variant \in {"process_single_image", "process_single_image_with_alignment"} =>
        /\ seg.pc # "raised"
        /\ seg.pc \in {"measure", "crops", "done"} =>
               /\ seg.warped # "None"
               /\ seg.used_method \in AlignedMethods

\* a quad was found, its homography could not be inverted, and the run went
\* on with the resized image
C19_Witness ==
    /\ seg.variant = "process_single_image_with_alignment"
    /\ seg.pc = "done"
    /\ seg.found /\ seg.doc_outcome = "no_inverse"
    /\ seg.used_method = "simple_resize_fallback"

\* ------------------------------------------------------------------------
\* The quadrilaterals handed to cv2.getPerspectiveTransform: the candidates
\* of best_warp, the corners of the external corner service (model.py) and
\* the contour approximations of process_single_image (Segment.py).
\* ------------------------------------------------------------------------

\* cv2.isContourConvex: every turn has the same strict orientation
isContourConvex(poly) == StrictlyConvexCycle(poly)

\* four different points, no three of them on a line, in contour order
FourCorners ==
    { q \in [1..4 -> Points] :
        \A i, j, k \in 1..4 :
            (i < j /\ j < k) => Cross(q[i], q[j], q[k]) # 0 }

\* the segments a-b and c-d cross
SegmentsCross(a, b, c, d) ==
    /\ Cross(a, b, c) * Cross(a, b, d) < 0
    /\ Cross(c, d, a) * Cross(c, d, b) < 0

\* a contour approximation is a closed polygon that does not cross itself
SimplePolygon(q) ==
    /\ ~SegmentsCross(q[1], q[2], q[3], q[4])
    /\ ~SegmentsCross(q[2], q[3], q[4], q[1])

\* where cv2.cornerSubPix may leave a corner: in the search window around it
SubpixWindow(p) ==
    { c \in Points : Abs(c[1] - p[1]) <= 1 /\ Abs(c[2] - p[2]) <= 1 }

QuadSources == {"best_warp", "gemini_corners", "process_single_image"}

InitQuads ==
    /\ qv \in {[pc |-> "corners", source |-> src, pts |-> q, quad |-> NoQuad] :
                 src \in QuadSources, q \in FourCorners}
    /\ ord = Off /\ fc = Off /\ sr = Off /\ ce = Off /\ seg = Off
    /\ ap = Off /\ wp = Off /\ hm = Off /\ ab = Off
    /\ bt = Off /\ bw = Off /\ lq = Off /\ cb = Off

\* candidate_quads_from_mask_and_edges: a 4-point approximation is kept if
\* cv2.isContourConvex holds
CandidateQuad ==
    /\ qv.pc = "corners" /\ qv.source = "best_warp"
    /\ SimplePolygon(qv.pts)
    /\ qv' = [qv EXCEPT !.pc = IF isContourConvex(qv.pts) THEN "candidate"
                               ELSE "dropped"]
    /\ UNCHANGED <<ord, fc, sr, ce, seg, ap, wp, hm, ab, bt, bw, lq, cb>>

\* best_warp: q_ref = refine_corners_subpix(gray, q), then warp_from_quad;
\* one corner is moved by the refinement, or none, and the corners stay
\* four different points with no three on a line
RefineAndWarp ==
    /\ qv.pc = "candidate"
    /\ \E i \in 1..4 : \E c \in SubpixWindow(qv.pts[i]) :
         LET q_ref == [qv.pts EXCEPT ![i] = c]
         IN /\ q_ref \in FourCorners
            /\ qv' = [qv EXCEPT !.pc = "warped", !.pts = q_ref,
                                !.quad = warp_from_quad_P(q_ref)]
    /\ UNCHANGED <<ord, fc, sr, ce, seg, ap, wp, hm, ab, bt, bw, lq, cb>>

\* process: cs = gemini_corners(small) has shape (4, 2), then warp_from_quad
ServiceCorners ==
    /\ qv.pc = "corners" /\ qv.source = "gemini_corners"
    /\ qv' = [qv EXCEPT !.pc = "warped", !.quad = warp_from_quad_P(qv.pts)]
    /\ UNCHANGED <<ord, fc, sr, ce, seg, ap, wp, hm, ab, bt, bw, lq, cb>>

\* process_single_image: a contour with len(approx) == 4 is taken,
\* found_corners = order_points(pts) goes to cv2.getPerspectiveTransform
ContourQuad ==
    /\ qv.pc = "corners" /\ qv.source = "process_single_image"
    /\ SimplePolygon(qv.pts)
    /\ qv' = [qv EXCEPT !.pc = "warped", !.quad = order_points(qv.pts)]
    /\ UNCHANGED <<ord, fc, sr, ce, seg, ap, wp, hm, ab, bt, bw, lq, cb>>

NextQuads == CandidateQuad \/ RefineAndWarp \/ ServiceCorners \/ ContourQuad

SpecQuads == InitQuads /\ [][NextQuads]_vars

\* the corners are four different points and, taken in their order, turn the
\* same way at every corner: convex, and not crossing itself
ConvexQuad(q) ==
    /\ \A i, j \in 1..4 : i # j => q[i] # q[j]
    /\ \/ \A i \in 1..4 : Cross(q[i], q[(i % 4) + 1], q[((i + 1) % 4) + 1]) >= 0
       \/ \A i \in 1..4 : Cross(q[i], q[(i % 4) + 1], q[((i + 1) % 4) + 1]) <= 0

\* C20: every quadrilateral from which a homography is computed or an image
\* is warped (a refined candidate of best_warp, the corners of the external
\* service, a 4-point contour approximation of process_single_image) is
\* convex and does not cross itself; quad is the array of corners that
\* cv2.getPerspectiveTransform receives
C20_WarpedQuadsConvex ==
    qv.pc = "warped" => ConvexQuad(qv.quad)

\* ---------------------------------------------------------------------------
\* Batch runs: the loop "for img_name, group in grouped" of process_images and
\* the loop "for img_idx, (image, filename) in enumerate(zip(image_list,
\* filenames))" of crop_questions_from_images.  bt.cur holds the locals of the
\* run as the loop leaves them from one image to the next; bt.ref holds the
\* locals of a run that is given the current image alone and meets the same
\* image content at every step.  bt.n counts the images taken.
\* ---------------------------------------------------------------------------

\* at most MaxBatch images in a batch
MaxBatch == 2

\* the template and the options are fixed for the batch
BatchConfigs ==
    { cfg \in Configs : cfg.variant \in {"process_images",
                                         "process_single_image_with_alignment"} }

\* image content met in a batch: every image size, a homography that keeps
\* or breaches each of the rotation, scale and perspective thresholds, a
\* feature match with four or ten matches, a small and a large contour, a
\* passing and a failing residual, no crop, an inked and a blank crop
BatchGeoms ==
    { g \in Geoms : /\ g.rotation_deg \in {0, 25}
                    /\ g.scale_x = 1000
                    /\ g.perspective_pct \in {0, 9} }

BatchFeatureResults(template) ==
    { r \in FeatureResults(template) :
        IF r.H = None THEN r.stats = EmptyStats
        ELSE r.H \in BatchGeoms /\ r.stats.matches \in {4, 10} }

BatchContours == { None, Some(150), Some(600) }

BatchHough == { None, Some(600) }

BatchMads == { None, Some(10), Some(31) }

BatchCrops == { << >>, <<"inked">>, <<"mostly_blank">> }

InitBatch ==
    /\ bt \in { [pc |-> "batch", cfg |-> cfg, n |-> 0, cur |-> SegStart,
                 ref |-> SegStart] : cfg \in BatchConfigs }
    /\ ord = Off /\ fc = Off /\ sr = Off /\ ce = Off /\ seg = Off
    /\ ap = Off /\ wp = Off /\ hm = Off /\ ab = Off /\ qv = Off
    /\ bw = Off /\ lq = Off /\ cb = Off

\* the loop takes the next image and the body starts on it
BatchLoad ==
    /\ bt.pc = "batch" /\ bt.cur.pc = "start" /\ bt.n < MaxBatch
    /\ \E size \in ImageSizes :
         bt' = [bt EXCEPT !.n = bt.n + 1,
                          !.cur = Loaded(bt.cur, bt.cfg, size),
                          !.ref = Loaded(SegStart, bt.cfg, size)]
    /\ UNCHANGED <<ord, fc, sr, ce, seg, ap, wp, hm, ab, qv, bw, lq, cb>>

BatchFeatures ==
    /\ bt.pc = "batch" /\ bt.cur.pc = "features"
    /\ IF FeaturesSkipped(bt.cur)
       THEN bt' = [bt EXCEPT !.cur = [bt.cur EXCEPT !.pc = "size"],
                             !.ref = [bt.ref EXCEPT !.pc = "size"]]
       ELSE \E r \in BatchFeatureResults(bt.cur.template),
               inv_ok \in BOOLEAN, warp_ok \in BOOLEAN :
              bt' = [bt EXCEPT !.cur = AfterFeatures(bt.cur, r, inv_ok, warp_ok),
                               !.ref = AfterFeatures(bt.ref, r, inv_ok, warp_ok)]
    /\ UNCHANGED <<ord, fc, sr, ce, seg, ap, wp, hm, ab, qv, bw, lq, cb>>

BatchSizeCheck ==
    /\ bt.pc = "batch" /\ bt.cur.pc = "size"
    /\ bt' = [bt EXCEPT !.cur = SizeChecked(bt.cur), !.ref = SizeChecked(bt.ref)]
    /\ UNCHANGED <<ord, fc, sr, ce, seg, ap, wp, hm, ab, qv, bw, lq, cb>>

BatchContoursStep ==
    /\ bt.pc = "batch" /\ bt.cur.pc = "contours"
    /\ \E c \in BatchContours :
         bt' = [bt EXCEPT !.cur = ContoursSearched(bt.cur, c),
                          !.ref = ContoursSearched(bt.ref, c)]
    /\ UNCHANGED <<ord, fc, sr, ce, seg, ap, wp, hm, ab, qv, bw, lq, cb>>

BatchHoughStep ==
    /\ bt.pc = "batch" /\ bt.cur.pc = "hough"
    /\ \E c \in BatchHough :
         bt' = [bt EXCEPT !.cur = HoughSearched(bt.cur, c),
                          !.ref = HoughSearched(bt.ref, c)]
    /\ UNCHANGED <<ord, fc, sr, ce, seg, ap, wp, hm, ab, qv, bw, lq, cb>>

BatchDocHomography ==
    /\ bt.pc = "batch" /\ bt.cur.pc = "homography"
    /\ \E g \in BatchGeoms, outcome \in DocOutcomes :
         bt' = [bt EXCEPT !.cur = DocWarped(bt.cur, g, outcome),
                          !.ref = DocWarped(bt.ref, g, outcome)]
    /\ UNCHANGED <<ord, fc, sr, ce, seg, ap, wp, hm, ab, qv, bw, lq, cb>>

BatchLastResort ==
    /\ bt.pc = "batch" /\ bt.cur.pc = "lastresort"
    /\ bt' = [bt EXCEPT !.cur = Fallback(bt.cur), !.ref = Fallback(bt.ref)]
    /\ UNCHANGED <<ord, fc, sr, ce, seg, ap, wp, hm, ab, qv, bw, lq, cb>>

BatchMeasure ==
    /\ bt.pc = "batch" /\ bt.cur.pc = "measure"
    /\ \E mad \in Residuals(bt.cur) \cap BatchMads :
         bt' = [bt EXCEPT !.cur = MeasuredOrLeft(bt.cur, mad),
                          !.ref = MeasuredOrLeft(bt.ref, mad)]
    /\ UNCHANGED <<ord, fc, sr, ce, seg, ap, wp, hm, ab, qv, bw, lq, cb>>

BatchCropsStep ==
    /\ bt.pc = "batch" /\ bt.cur.pc = "crops"
    /\ \E crops \in BatchCrops :
         bt' = [bt EXCEPT !.cur = Cropped(bt.cur, crops),
                          !.ref = Cropped(bt.ref, crops)]
    /\ UNCHANGED <<ord, fc, sr, ce, seg, ap, wp, hm, ab, qv, bw, lq, cb>>

\* the body ends ("summary[img_name] = ...", "image_metadata[page_name] =
\* metadata", or "continue" for a skipped image) and the loop goes on; the
\* locals of process_images stay as the body left them
NextImage ==
    /\ bt.pc = "batch" /\ bt.cur.pc \in {"done", "skipped"} /\ bt.n < MaxBatch
    /\ bt' = [bt EXCEPT !.cur = [bt.cur EXCEPT !.pc = "start"],
                        !.ref = SegStart]
    /\ UNCHANGED <<ord, fc, sr, ce, seg, ap, wp, hm, ab, qv, bw, lq, cb>>

NextBatch ==
    \/ BatchLoad \/ BatchFeatures \/ BatchSizeCheck \/ BatchContoursStep
    \/ BatchHoughStep \/ BatchDocHomography \/ BatchLastResort \/ BatchMeasure
    \/ BatchCropsStep \/ NextImage

SpecBatch == InitBatch /\ [][NextBatch]_vars

\* the alignment result reported for an image
Reported(st) ==
    [used_method |-> st.used_method, alignment_confidence |-> st.confidence,
     transform_params |-> [rotation_deg |-> st.geom.rotation_deg,
                           scale_x |-> st.geom.scale_x, scale_y |-> st.geom.scale_y],
     perspective_metrics |-> [perspective_distortion_pct |-> st.geom.perspective_pct],
     manual_check_needed |-> st.manual_flag,
     manual_check_reasons |-> st.manual_reasons]

\* C21: in a batch, the run reaches for every image the step a run on that
\* image alone reaches, and the alignment result it reports for the image
\* (used_method, alignment_confidence, transform_params, perspective_metrics,
\* manual_check_needed, manual_check_reasons) is the one the run on that image
\* alone reports, whatever images came before it.
C21_BatchIndependent ==
    bt.pc = "batch" =>
        /\ bt.cur.pc # "start" => bt.cur.pc = bt.ref.pc
        /\ bt.cur.pc = "done" => Reported(bt.cur) = Reported(bt.ref)

\* a second image of process_images is reported while the locals still hold
\* the corners found in the image before, which a run on it alone never found
C21_Witness ==
    /\ bt.pc = "batch" /\ bt.n = 2 /\ bt.cur.pc = "done"
    /\ bt.cur.variant = "process_images"
    /\ bt.cur.found /\ ~bt.ref.found
    /\ bt.cur.used_method = "feature_homography"

\* ---------------------------------------------------------------------------
\* The manual-check flag and the order of the reasons
\* ---------------------------------------------------------------------------

\* the reason tags in the order the code appends them
TagOrder ==
    <<"low_confidence", "high_residual_mad", "high_rotation", "scale_change",
      "perspective_distortion", "mostly_blank_crop">>

TagIndex(tag) == CHOOSE i \in 1..Len(TagOrder) : TagOrder[i] = tag

InTagOrderOnce(reasons) ==
    /\ \A i \in 1..Len(reasons) : InSeq(reasons[i], TagOrder)
    /\ \A i, j \in 1..Len(reasons) :
         i < j => TagIndex(reasons[i]) < TagIndex(reasons[j])

\* C22: in every result of process_single_image and process_images,
\* manual_check_needed is true exactly when manual_check_reasons is not
\* empty, and the reason tags are in the order low_confidence,
\* high_residual_mad, high_rotation, scale_change, perspective_distortion,
\* mostly_blank_crop, each at most once.
C22_FlagIffReasonsInOrder ==
    (seg.pc = "done" /\ seg.variant \in {"process_single_image", "process_images"})
        => /\ seg.manual_flag <=> Len(seg.manual_reasons) > 0
           /\ InTagOrderOnce(seg.manual_reasons)

\* process_images reports an image with two blank crops and three breached
\* thresholds
C22_Witness ==
    /\ seg.pc = "done" /\ seg.variant = "process_images"
    /\ seg.crops = <<"mostly_blank", "mostly_blank">>
    /\ seg.manual_reasons = <<"low_confidence", "high_rotation", "scale_change",
                              "mostly_blank_crop">>
    /\ seg.manual_flag

\* ---------------------------------------------------------------------------
\* best_warp on scored candidates.  A candidate is what best_warp computes
\* from it: rscore (orthogonality x rectangularity, in tenths), its coverage
\* of the page (in hundredths) and the sharpness of its warp.
\* ---------------------------------------------------------------------------

\* at most MaxScored candidate quads
MaxScored == 5

\* "cov_penalty = 1.0 - abs(np.clip(coverage,0,1) - 0.65)", in hundredths
cov_penalty(coverage) == 100 - Abs(Min2(Max2(coverage, 0), 100) - 65)

\* "s = rscore * cov_penalty", in thousandths
LayoutScore(c) == c.rscore * cov_penalty(c.coverage)

\* "total = sharp * (1.0 + 0.3*s)", times 10000
Total(c) == c.sharp * (10000 + 3 * LayoutScore(c))

RECURSIVE SortedByScore(_, _)
\* "scored.sort(key=lambda z: z[0], reverse=True)" on the first n candidates,
\* as the sequence of their places: candidates of equal score stay in the
\* order they came in
SortedByScore(cands, n) ==
    IF n = 0 THEN << >>
    ELSE LET before == SortedByScore(cands, n - 1)
             k == Cardinality({ i \in 1..Len(before) :
                                  LayoutScore(cands[before[i]])
                                      >= LayoutScore(cands[n]) })
         IN  SubSeq(before, 1, k) \o <<n>> \o SubSeq(before, k + 1, Len(before))

RECURSIVE BestOf_last_on_ties(_, _, _)
\* a loop that replaces the best on "total >= best_val"
BestOf_last_on_ties(cands, top, n) ==
    IF n = 0 THEN 0
    ELSE LET best == BestOf_last_on_ties(cands, top, n - 1)
         IN  IF best = 0 \/ Total(cands[top[n]]) >= Total(cands[best])
             THEN top[n] ELSE best

RECURSIVE BestOf(_, _, _)
\* the loop over top after its first n rounds: "if total > best_val", with
\* best_val = -1e9 before the first round
BestOf(cands, top, n) ==
    IF n = 0 THEN 0
    ELSE LET best == BestOf(cands, top, n - 1)
         IN  IF best = 0 \/ Total(cands[top[n]]) > Total(cands[best])
             THEN top[n] ELSE best

\* best_warp: warped are the places of the candidates that are refined,
\* warped and scored for sharpness, in that order; used is the place of the
\* candidate whose warp and refined quad are returned (0 for quad None)
best_warp_scored(cands) ==
    IF cands = << >>
    THEN [wr |-> "copy", wg |-> "copy", used |-> 0, branch |-> "no_quad",
          warped |-> << >>]
    ELSE LET scored == SortedByScore(cands, Len(cands))
             top == SubSeq(scored, 1, Min2(TopK, Len(scored)))
         IN  [wr |-> "warp", wg |-> "warp", used |-> BestOf(cands, top, Len(top)),
              branch |-> "multiquad", warped |-> top]

\* an unrectangular quad and a rectangular one covering 65% or 30% of the
\* page, with a warp of sharpness 10 or 13 (a rectangular quad at 65% of
\* sharpness 10 has the total of an unrectangular one of sharpness 13)
ScoredCandidates ==
    { [rscore |-> rc[1], coverage |-> rc[2], sharp |-> sh] :
        rc \in { <<0, 65>>, <<10, 65>>, <<10, 30>> }, sh \in {10, 13} }

InitBest ==
    /\ bw \in { [pc |-> "candidates", cands |-> cs, out |-> None] :
                  cs \in UNION { [1..n -> ScoredCandidates] : n \in 0..MaxScored } }
    /\ ord = Off /\ fc = Off /\ sr = Off /\ ce = Off /\ seg = Off
    /\ ap = Off /\ wp = Off /\ hm = Off /\ ab = Off /\ qv = Off
    /\ bt = Off /\ lq = Off /\ cb = Off

BestWarp ==
    /\ bw.pc = "candidates"
    /\ bw' = [bw EXCEPT !.pc = "returned", !.out = best_warp_scored(bw.cands)]
    /\ UNCHANGED <<ord, fc, sr, ce, seg, ap, wp, hm, ab, qv, bt, lq, cb>>

NextBest == BestWarp

SpecBest == InitBest /\ [][NextBest]_vars

\* C23: best_warp warps at most 4 candidates, none of a lower layout score
\* than a candidate it leaves out and in descending order of the score; it
\* returns the one of the largest sharpness * (1 + 0.3 * score) among them,
\* the first of them in that order on ties; with no candidate it returns
\* copies of the input, quad None and branch no_quad.
C23_BestOfTopFour ==
    bw.pc = "returned" =>
        LET cands == bw.cands
            out == bw.out
            W == { out.warped[i] : i \in 1..Len(out.warped) }
        IN  IF cands = << >>
            THEN /\ out.wr = "copy" /\ out.wg = "copy"
                 /\ out.used = 0 /\ out.branch = "no_quad" /\ out.warped = << >>
            ELSE /\ out.branch = "multiquad" /\ out.wr = "warp"
                 /\ Len(out.warped) = Min2(4, Len(cands))
                 /\ Cardinality(W) = Len(out.warped)
                 /\ W \subseteq 1..Len(cands)
                 /\ \A i \in W, j \in (1..Len(cands)) \ W :
                      LayoutScore(cands[i]) >= LayoutScore(cands[j])
                 /\ \A i, j \in 1..Len(out.warped) :
                      i < j => LayoutScore(cands[out.warped[i]])
                                 >= LayoutScore(cands[out.warped[j]])
                 /\ \E k \in 1..Len(out.warped) :
                      /\ out.used = out.warped[k]
                      /\ \A i \in 1..Len(out.warped) :
                           /\ Total(cands[out.warped[i]]) <= Total(cands[out.used])
                           /\ i < k => Total(cands[out.warped[i]])
                                          < Total(cands[out.used])

\* five candidates, the sharpest of them left out for its low layout score,
\* and two of the four warped ones tied for the largest total
C23_Witness ==
    /\ bw.pc = "returned" /\ Len(bw.cands) = 5
    /\ \E j \in 1..5 :
         /\ \A i \in 1..Len(bw.out.warped) : bw.out.warped[i] # j
         /\ Total(bw.cands[j]) > Total(bw.cands[bw.out.used])
    /\ \E i \in 1..Len(bw.out.warped) :
         /\ bw.out.warped[i] # bw.out.used
         /\ Total(bw.cands[bw.out.warped[i]]) = Total(bw.cands[bw.out.used])

\* ---------------------------------------------------------------------------
\* The type of a row
\* ---------------------------------------------------------------------------

\* "ry = y + h//2; has = (by <= ry <= by+bh)" on a returned row
MidpointInBand(row, band) ==
    LET ry == row.bbox.y + row.bbox.h \div 2
    IN  band[2] <= ry /\ ry <= band[2] + band[4]

\* C24: a returned row is typed mcq with confidence 0.86 exactly when its
\* vertical midpoint y + h//2 lies in [by, by + bh], and text with confidence
\* 0.72 otherwise; a text row carries no answer_box_bbox.
C24_TypedByMidpoint ==
    ab.pc = "attached" =>
        \A i \in 1..Len(ab.out) :
            LET row == ab.out[i]
            IN  /\ MidpointInBand(row, ab.band)
                     <=> (row.type = "mcq" /\ row.confidence = 86)
                /\ ~MidpointInBand(row, ab.band)
                     <=> (row.type = "text" /\ row.confidence = 72)
                /\ row.type = "text" => row.answer_box_bbox = None
                /\ row.answer_box_bbox # None => row.type = "mcq"

\* three rows: one above the band, typed text; one with its midpoint on the
\* top edge of the band and one of odd height with its midpoint on the
\* bottom edge, both typed mcq, one of them with an answer box
C24_Witness ==
    /\ ab.pc = "attached" /\ Len(ab.out) = 3
    /\ ab.out[1].type = "text" /\ ab.out[1].answer_box_bbox = None
    /\ ab.out[2].type = "mcq" /\ ab.out[2].bbox.y + ab.out[2].bbox.h \div 2 = ab.band[2]
    /\ ab.out[3].type = "mcq" /\ ab.out[3].bbox.h % 2 = 1
    /\ ab.out[3].bbox.y + ab.out[3].bbox.h \div 2 = ab.band[2] + ab.band[4]
    /\ \E i \in 2..3 : ab.out[i].answer_box_bbox # None

\* ---------------------------------------------------------------------------
\* detect_quad_lsd (train.py).  A segment is <<x1, y1, x2, y2>> as the line
\* segment detector lists it; a line is kept as two of its points.
\* ---------------------------------------------------------------------------

\* at most MaxSegs detected segments
MaxSegs == 4

\* tan(20 degrees), in millionths: "abs(ang) < 20"
Tan20 == 363970

\* the image of the model, LsdW x LsdH
LsdW == 100

LsdH == 100

\* "ang = np.degrees(np.arctan2(y2-y1, x2-x1)); if abs(ang) < 20": the
\* direction from the first endpoint to the second is within 20 degrees of the
\* positive x axis (arctan2(0, 0) is 0)
InHs(s) ==
    LET dx == s[3] - s[1]
        dy == s[4] - s[2]
    IN  \/ dx = 0 /\ dy = 0
        \/ dx > 0 /\ Abs(dy) * 1000000 < Tan20 * dx

\* "elif abs(abs(ang)-90) < 20": the direction is within 20 degrees of the
\* y axis, up or down
InVs(s) ==
    LET dx == s[3] - s[1]
        dy == s[4] - s[2]
    IN  ~InHs(s) /\ dy # 0 /\ Abs(dx) * 1000000 < Tan20 * Abs(dy)

\* seg_len squared
SegLen2(s) == (s[3] - s[1]) * (s[3] - s[1]) + (s[4] - s[2]) * (s[4] - s[2])

RECURSIVE LongestFirst(_, _)
\* "sorted(Hs, key=seg_len, reverse=True)" on the first n segments: segments
\* of equal length stay in the order they came in
LongestFirst(segs, n) ==
    IF n = 0 THEN << >>
    ELSE LET before == LongestFirst(segs, n - 1)
             k == Cardinality({ i \in 1..Len(before) :
                                  SegLen2(before[i]) >= SegLen2(segs[n]) })
         IN  SubSeq(before, 1, k) \o <<segs[n]>> \o SubSeq(before, k + 1, Len(before))

\* line_from_segment: None for a segment of no length, else the line through
\* its endpoints
line_from_segment(s) ==
    IF s[1] = s[3] /\ s[2] = s[4] THEN None ELSE Some(s)

\* "[:10]", line_from_segment on each and "if l is not None"
LinesOf(segs) ==
    LET sorted == LongestFirst(segs, Len(segs))
        first == SubSeq(sorted, 1, Min2(10, Len(sorted)))
    IN  SelectSeq(first, LAMBDA s : line_from_segment(s) # None)

\* line_y(l, x) at x = x2 / 2 and line_x(l, y) at y = y2 / 2, as a fraction
\* <<numerator, denominator>> with a positive denominator; None for a line
\* along the other axis
line_y(l, x2) ==
    LET dx == l[3] - l[1]
        num == 2 * l[2] * dx + (l[4] - l[2]) * (x2 - 2 * l[1])
    IN  IF dx = 0 THEN None
        ELSE IF dx > 0 THEN Some(<<num, 2 * dx>>) ELSE Some(<<-num, -2 * dx>>)

line_x(l, y2) ==
    LET dy == l[4] - l[2]
        num == 2 * l[1] * dy + (l[3] - l[1]) * (y2 - 2 * l[2])
    IN  IF dy = 0 THEN None
        ELSE IF dy > 0 THEN Some(<<num, 2 * dy>>) ELSE Some(<<-num, -2 * dy>>)

\* a <= b for two keys, each a fraction or None; None stands for lo_or_hi
\* (1e9 in min, -1e9 in max)
KeyLeq(a, b, lo_or_hi) ==
    IF a = None /\ b = None THEN TRUE
    ELSE IF a = None THEN lo_or_hi = "lo"
    ELSE IF b = None THEN lo_or_hi = "hi"
    ELSE a.some[1] * b.some[2] <= b.some[1] * a.some[2]

\* min(lines, key=...): the first of the smallest
FirstMin(lines, keys) ==
    lines[CHOOSE i \in 1..Len(lines) :
            /\ \A j \in 1..Len(lines) : KeyLeq(keys[i], keys[j], "hi")
            /\ \A j \in 1..(i - 1) : ~KeyLeq(keys[j], keys[i], "hi")]

\* max(lines, key=...): the first of the largest
FirstMax(lines, keys) ==
    lines[CHOOSE i \in 1..Len(lines) :
            /\ \A j \in 1..Len(lines) : KeyLeq(keys[j], keys[i], "lo")
            /\ \A j \in 1..(i - 1) : ~KeyLeq(keys[i], keys[j], "lo")]

\* intersect: None for parallel lines, else the point where they meet (the
\* lines of the model meet in whole pixels)
intersect(a, b) ==
    LET x1 == a[1]  y1 == a[2]  x2 == a[3]  y2 == a[4]
        x3 == b[1]  y3 == b[2]  x4 == b[3]  y4 == b[4]
        den == (x1 - x2) * (y3 - y4) - (y1 - y2) * (x3 - x4)
        px == (x1 * y2 - y1 * x2) * (x3 - x4) - (x1 - x2) * (x3 * y4 - y3 * x4)
        py == (x1 * y2 - y1 * x2) * (y3 - y4) - (y1 - y2) * (x3 * y4 - y3 * x4)
    IN  IF den = 0 THEN None
        ELSE IF den > 0 THEN Some(<<px \div den, py \div den>>)
        ELSE Some(<<(-px) \div (-den), (-py) \div (-den)>>)

\* from the border lines to the returned quad: "midx, midy = w/2, h/2", top,
\* bottom, left, right (each line looked at in the middle of the image), the
\* four corners, the clipping and order_corners
QuadOfLines(H_lines, V_lines, w, h) ==
    IF Len(H_lines) < 2 \/ Len(V_lines) < 2 THEN None
    ELSE LET ys == [i \in 1..Len(H_lines) |-> line_y(H_lines[i], w)]
             xs == [i \in 1..Len(V_lines) |-> line_x(V_lines[i], h)]
             top == FirstMin(H_lines, ys)
             bottom == FirstMax(H_lines, ys)
             left == FirstMin(V_lines, xs)
             right == FirstMax(V_lines, xs)
             corners == << intersect(top, left), intersect(top, right),
                           intersect(bottom, right), intersect(bottom, left) >>
         IN  IF \E i \in 1..4 : corners[i] = None THEN None
             ELSE Some(order_corners(
                      [i \in 1..4 |-> << Clip(corners[i].some[1], -50, w + 50),
                                         Clip(corners[i].some[2], -50, h + 50) >>]))

\* detect_quad_lsd from the detected segments on: the classified segments
\* and the returned quad
detect_quad_lsd(lines, w, h) ==
    LET Hs == SelectSeq(lines, InHs)
        Vs == SelectSeq(lines, InVs)
    IN  [Hs |-> Hs, Vs |-> Vs,
         quad |-> IF Len(Hs) < 2 \/ Len(Vs) < 2 THEN None
                  ELSE QuadOfLines(LinesOf(Hs), LinesOf(Vs), w, h)]

\* the segments met: the top edge left to right, the bottom edge right to
\* left, a slanted edge near the bottom left to right, the left edge
\* downwards, the right edge upwards, a diagonal and a segment of no length
DetectedSegments ==
    { <<0, 10, 100, 10>>, <<100, 90, 0, 90>>, <<0, 80, 100, 90>>,
      <<10, 0, 10, 100>>, <<90, 100, 90, 0>>, <<0, 0, 50, 50>>,
      <<40, 40, 40, 40>> }

InitLsd ==
    /\ lq \in { [pc |-> "detected", lines |-> ls, Hs |-> << >>, Vs |-> << >>,
                 quad |-> None] :
                  ls \in UNION { [1..n -> DetectedSegments] : n \in 0..MaxSegs } }
    /\ ord = Off /\ fc = Off /\ sr = Off /\ ce = Off /\ seg = Off
    /\ ap = Off /\ wp = Off /\ hm = Off /\ ab = Off /\ qv = Off
    /\ bt = Off /\ bw = Off /\ cb = Off

DetectQuadLsd ==
    /\ lq.pc = "detected"
    /\ LET r == detect_quad_lsd(lq.lines, LsdW, LsdH)
       IN  lq' = [lq EXCEPT !.pc = "returned", !.Hs = r.Hs, !.Vs = r.Vs,
                            !.quad = r.quad]
    /\ UNCHANGED <<ord, fc, sr, ce, seg, ap, wp, hm, ab, qv, bt, bw, cb>>

NextLsd == DetectQuadLsd

SpecLsd == InitLsd /\ [][NextLsd]_vars

\* the line of s is less than 20 degrees from the horizontal axis
NearHorizontal(s) ==
    SegLen2(s) > 0 /\ Abs(s[4] - s[2]) * 1000000 < Tan20 * Abs(s[3] - s[1])

\* the line of s is less than 20 degrees from the vertical axis
NearVertical(s) ==
    SegLen2(s) > 0 /\ Abs(s[3] - s[1]) * 1000000 < Tan20 * Abs(s[4] - s[2])

\* C25: a segment of some length is classified near-horizontal exactly when
\* its line is less than 20 degrees from the horizontal axis and
\* near-vertical exactly when its line is less than 20 degrees from the
\* vertical axis, whichever endpoint comes first; and no quad is returned
\* exactly when fewer than 2 such lines exist in one of the two orientations
\* or two adjacent border lines do not meet.
C25_ClassifiedByLineAngle ==
    lq.pc = "returned" =>
        /\ \A i \in 1..Len(lq.lines) :
             SegLen2(lq.lines[i]) > 0 =>
                /\ InSeq(lq.lines[i], lq.Hs) <=> NearHorizontal(lq.lines[i])
                /\ InSeq(lq.lines[i], lq.Vs) <=> NearVertical(lq.lines[i])
        /\ lq.quad = None <=>
             QuadOfLines(LinesOf(SelectSeq(lq.lines, NearHorizontal)),
                         LinesOf(SelectSeq(lq.lines, NearVertical)),
                         LsdW, LsdH) = None

\* ---------------------------------------------------------------------------
\* Alignment without a homography
\* ---------------------------------------------------------------------------

NoHomographyMethods ==
    {"identity_size_match", "identity_after_failed_detection",
     "simple_resize_fallback"}

\* C26: whenever the reported used_method is identity_size_match,
\* identity_after_failed_detection or simple_resize_fallback, the reported
\* transform_params are rotation_deg 0, scale_x 1, scale_y 1, shear 0, tx 0,
\* ty 0, h20 0, h21 0 and perspective_distortion_pct is 0, and the reasons
\* hold none of high_rotation, scale_change and perspective_distortion.
C26_NoHomographyIdentityParams ==
    (seg.pc \in {"crops", "done"} /\ seg.used_method \in NoHomographyMethods)
        => /\ seg.geom.rotation_deg = 0
           /\ seg.geom.scale_x = 1000 /\ seg.geom.scale_y = 1000
           /\ seg.other_params = [shear |-> 0, tx |-> 0, ty |-> 0, h20 |-> 0, h21 |-> 0]
           /\ seg.geom.perspective_pct = 0
           /\ ~InSeq("high_rotation", seg.manual_reasons)
           /\ ~InSeq("scale_change", seg.manual_reasons)
           /\ ~InSeq("perspective_distortion", seg.manual_reasons)

\* process_images reports simple_resize_fallback after a found document whose
\* warp was not accepted, with reasons but none of the three
C26_Witness ==
    /\ seg.pc = "done" /\ seg.used_method = "simple_resize_fallback"
    /\ seg.variant = "process_images" /\ seg.found /\ seg.doc_outcome = "no_warp"
    /\ seg.manual_reasons = <<"low_confidence", "high_residual_mad">>

\* ---------------------------------------------------------------------------
\* The ordered corners as a permutation of the input
\* ---------------------------------------------------------------------------

\* C27: for four distinct points that are the corners of a convex
\* quadrilateral, the output of order_points / order_corners holds each of
\* the four input points exactly once.
C27_OutputIsPermutation ==
    (ord.pc = "done" /\ ord.routine \in {"order_points", "order_corners"})
        => \A i \in 1..4 :
             Cardinality({ j \in 1..4 : ord.rect[j] = ord.pts[i] }) = 1

\* ---------------------------------------------------------------------------
\* Where identity_after_failed_detection can be reported
\* ---------------------------------------------------------------------------

ServiceFunctions ==
    {"process_single_image", "process_single_image_with_alignment"}

\* C28: process_single_image and process_single_image_with_alignment enter
\* the last-resort step only with the image size outside the tolerance and
\* leave it, when no warp was found, with simple_resize_fallback; they never
\* report identity_after_failed_detection, which only process_images run
\* with force_warp reports.
C28_IdentityAfterFailureOnlyForced ==
    /\ (seg.variant \in ServiceFunctions /\ seg.pc = "lastresort")
          => ~seg.size_diff_ok
    /\ (seg.variant \in ServiceFunctions /\ seg.pc \in {"measure", "crops", "done"}
        /\ ~seg.size_diff_ok /\ seg.warped \notin {"feature", "doc"})
          => seg.used_method = "simple_resize_fallback"
    /\ seg.used_method = "identity_after_failed_detection"
          => /\ seg.variant = "process_images" /\ seg.force_warp
             /\ seg.confidence = <<1, 2>>

\* process_images with force_warp reports identity_after_failed_detection for
\* a template-sized image in which no document was found
C28_Witness ==
    /\ seg.pc = "done" /\ seg.variant = "process_images" /\ seg.force_warp
    /\ seg.size_diff_ok /\ ~seg.found /\ seg.hough_tried
    /\ seg.used_method = "identity_after_failed_detection"
    /\ seg.confidence = <<1, 2>>

\* ---------------------------------------------------------------------------
\* crop_bbox_from_template_coords.  The bbox values are floats read from the
\* label file; the model keeps them in halves (bbox_x2 is twice bbox_x).
\* ---------------------------------------------------------------------------

\* int(round(v)) for v = v2 / 2: Python rounds a half to the even neighbour
PyRound(v2) ==
    LET lo == v2 \div 2
    IN  IF v2 % 2 = 0 THEN lo ELSE IF lo % 2 = 0 THEN lo ELSE lo + 1

\* the slice warped_img[y:y+h, x:x+w] that is copied, or None
crop_bbox_from_template_coords(Hh, Ww, bbox, pad) ==
    LET x0 == PyRound(bbox.bbox_x2) - pad
        y0 == PyRound(bbox.bbox_y2) - pad
        w0 == PyRound(bbox.bbox_width2) + 2 * pad
        h0 == PyRound(bbox.bbox_height2) + 2 * pad
        x == Max2(0, x0)
        y == Max2(0, y0)
        w == IF x + w0 > Ww THEN Ww - x ELSE w0
        h == IF y + h0 > Hh THEN Hh - y ELSE h0
    IN  IF w <= 0 \/ h <= 0 THEN None
        ELSE Some([x |-> x, y |-> y, w |-> w, h |-> h])

\* the warped images, as <<Ww, Hh>>
WarpedShapes == { <<8, 6>>, <<5, 5>> }

\* bboxes left of, across and right of the left border, in and across the
\* right border and right of the image, with whole and half coordinates, and
\* widths that are negative, zero, small and larger than the image
BBoxes ==
    { [bbox_x2 |-> x2, bbox_y2 |-> y2, bbox_width2 |-> w2, bbox_height2 |-> h2] :
        x2 \in {-12, -2, 0, 5, 8, 16}, w2 \in {-2, 0, 3, 4, 8, 20},
        y2 \in {-2, 0, 6, 12}, h2 \in {0, 4, 5, 20} }

Pads == {0, 1, 3}

InitCropBBox ==
    /\ cb \in { [pc |-> "called", Ww |-> s[1], Hh |-> s[2], bbox |-> b,
                 pad |-> p, out |-> None] :
                  s \in WarpedShapes, b \in BBoxes, p \in Pads }
    /\ ord = Off /\ fc = Off /\ sr = Off /\ ce = Off /\ seg = Off
    /\ ap = Off /\ wp = Off /\ hm = Off /\ ab = Off /\ qv = Off
    /\ bt = Off /\ bw = Off /\ lq = Off

CropBBox ==
    /\ cb.pc = "called"
    /\ cb' = [cb EXCEPT !.pc = "returned",
                        !.out = crop_bbox_from_template_coords(
                                    cb.Hh, cb.Ww, cb.bbox, cb.pad)]
    /\ UNCHANGED <<ord, fc, sr, ce, seg, ap, wp, hm, ab, qv, bt, bw, lq>>

NextCropBBox == CropBBox

SpecCropBBox == InitCropBBox /\ [][NextCropBBox]_vars

\* the bbox (its values rounded) grown by pad on each of its four sides and
\* cut to the image: columns x0 up to x1, rows y0 up to y1, the upper ends
\* not included
PaddedInImage(Hh, Ww, bbox, pad) ==
    [x0 |-> Max2(0, PyRound(bbox.bbox_x2) - pad),
     x1 |-> Min2(Ww, PyRound(bbox.bbox_x2) + PyRound(bbox.bbox_width2) + pad),
     y0 |-> Max2(0, PyRound(bbox.bbox_y2) - pad),
     y1 |-> Min2(Hh, PyRound(bbox.bbox_y2) + PyRound(bbox.bbox_height2) + pad)]

\* C29: crop_bbox_from_template_coords returns the intersection of the image
\* with the bbox grown by pad pixels on each of its four sides, and None
\* exactly when that intersection is empty; a returned crop has positive
\* width and height and lies inside the image.
C29_CropIsPaddedIntersection ==
    cb.pc = "returned" =>
        LET r == PaddedInImage(cb.Hh, cb.Ww, cb.bbox, cb.pad)
        IN  /\ cb.out = None <=> (r.x0 >= r.x1 \/ r.y0 >= r.y1)
            /\ cb.out # None =>
                 /\ cb.out.some = [x |-> r.x0, y |-> r.y0,
                                   w |-> r.x1 - r.x0, h |-> r.y1 - r.y0]
                 /\ cb.out.some.w > 0 /\ cb.out.some.h > 0
                 /\ cb.out.some.x >= 0 /\ cb.out.some.x + cb.out.some.w <= cb.Ww
                 /\ cb.out.some.y >= 0 /\ cb.out.some.y + cb.out.some.h <= cb.Hh

\* ---------------------------------------------------------------------------
\* The height of the returned rows
\* ---------------------------------------------------------------------------

\* C30: every row split_rows returns, a row truncated at the cutoff
\* int(H * min_y_frac) included, is at least max(40, H//40) high.
C30_RowsAtLeastMinHeight ==
    sr.pc = "done" =>
        \A i \in 1..Len(sr.out) :
            sr.out[i].h >= MinRowHeight(Len(Expand(sr.runs)))

============================================================================
